---- MODULE Spec2Model ----
(***************************************************************************)
(* Model of the knowledge-graph ingestion engine of gamma_poc:             *)
(*   - EntityResolver, Neo4jWriter, GraphIngestor (app/graphrag/           *)
(*     graph_ingestion.py),                                                *)
(*   - EntityRelationExtractor.process_document, the window merger         *)
(*     (app/graphrag/entity_relation_extraction.py),                       *)
(*   - the ingestion session loop (app/pipeline.py, scripts/               *)
(*     run_ingestion.py),                                                  *)
(*   - the tools of GraphRetriever as QueryAgent._dispatch calls them      *)
(*     (app/graphrag/graph_retrieval.py, app/agent/agent.py).              *)
(* Python dicts are functions (the empty dict is << >>), lists are         *)
(* sequences, strings are TLA+ strings; where the code looks inside a      *)
(* string (fuzz.token_sort_ratio, the block-list of run_cypher) the        *)
(* string's code points are taken from the tables Text and CypherText.     *)
(***************************************************************************)
EXTENDS Integers, Sequences, FiniteSets, TLC

VARIABLES
    registry,       \* EntityResolver._registry: canonical entities, insertion order
    name_index,     \* EntityResolver._name_index: type -> (canonical id, name), insertion order
    alias_map,      \* the alias_map returned by the last resolve() call
    batch,          \* the entity list the last resolve() call was given
    established,    \* history: every (raw id, canonical id) pair any resolve() call returned
    resolutions,    \* history: (raw id, type, name, canonical id) of every resolved raw entity
    resolved_count, \* history: number of raw entities resolved so far
    nodes,          \* graph store: the nodes, in creation order
    edges,          \* graph store: the relationships, in creation order
    session,        \* the ingestion session: "open", "failed" (an ingest raised), "done"
    summaries,      \* the summaries ingest() has returned in this session, in order
    last_doc,       \* history: the document of the last ingest() call (None before the first)
    last_outcome,   \* history: how the last ingest() call ended
    ingest_count,   \* history: number of ingest() calls made
    committed,      \* history: number of store statements the last ingest() call committed
    store_before,   \* history: the store as the last ingest() call found it
    schema_log,     \* the schema statements run: ensure_constraints, create_indexes
    total_pages,    \* process_document: len(self.pages) of the document being extracted
    window,         \* process_document: 1-based position in the window list of the loop
    result,         \* process_document: the ExtractionResult (entities, relationships, errors)
    pc,             \* process_document: "idle", "running", "returned" or "raised"
    collected,      \* history: the relationship list _deduplicate_relationships was given
    last_response,  \* history: what the oracle answered for the last window sent
    oracle_calls,   \* history: number of windows sent to the oracle
    argument,       \* a function called on its own: the arguments of the call
    returned,       \* a function called on its own: << >>, then <<its result>>
    context,        \* GraphRetriever.context: the GraphContext accumulated by the tools
    sent,           \* history: the query texts run_cypher sent to the store
    tool_calls,     \* history: number of tool calls dispatched in this query()
    workers,        \* document workers sharing one EntityResolver: each one's resolve() call
    exclusive,      \* whether resolve() calls are made under one exclusive lock
    lock,           \* the worker holding that lock, 0 when it is free
    tree,           \* the filings directory: (company dir, year dir, file name) of each file
    files,          \* the output directories: path -> content of each parsed/extracted JSON
    run,            \* Pipeline.run: skip_existing and the locals of the call
    stage_log,      \* history: the stage calls of the run, in order, with how each ended
    agent           \* QueryAgent.query: the round loop's position and locals

resolver_vars == <<registry, name_index, alias_map, batch, established,
                   resolutions, resolved_count>>

store_vars == <<nodes, edges>>

session_vars == <<session, summaries, last_doc, last_outcome, ingest_count,
                  committed, store_before, schema_log>>

worker_vars == <<workers, exclusive, lock>>

pipeline_vars == <<tree, files, run, stage_log>>

agent_vars == <<agent>>

extract_vars == <<total_pages, window, result, pc, collected, last_response,
                  oracle_calls>>

call_vars == <<argument, returned>>

retriever_vars == <<context, sent, tool_calls>>

vars == <<resolver_vars, store_vars, session_vars, extract_vars, call_vars,
          retriever_vars, worker_vars, pipeline_vars, agent_vars>>

(***************************************************************************)
(* Strings and dicts                                                       *)
(***************************************************************************)

\* Python None (no string of the model is spelled like this).
None == "<None>"

\* The empty dict {} / the empty list [].
EmptyDict == << >>

\* Code points of every string the code compares as a name (ids are names
\* too: resolve() falls back to the id when the "name" property is absent).
Text ==
    "infosys" :> <<105, 110, 102, 111, 115, 121, 115>> @@
    "infy" :> <<105, 110, 102, 121>> @@
    "infosys1" :> <<105, 110, 102, 111, 115, 121, 115, 49>> @@
    "infosys12" :> <<105, 110, 102, 111, 115, 121, 115, 49, 50>> @@
    "Infosys" :> <<73, 110, 102, 111, 115, 121, 115>> @@
    "Infosys Limited" :> <<73, 110, 102, 111, 115, 121, 115, 32, 76, 105, 109, 105, 116, 101, 100>> @@
    "Limited Infosys" :> <<76, 105, 109, 105, 116, 101, 100, 32, 73, 110, 102, 111, 115, 121, 115>>

\* dict.get(key, default)
DictGet(d, key, default) == IF key \in DOMAIN d THEN d[key] ELSE default

\* d.update(other): keys of other overwrite, other keys of d are kept.
DictUpdate(d, other) ==
    [k \in (DOMAIN d) \cup (DOMAIN other) |->
        IF k \in DOMAIN other THEN other[k] ELSE d[k]]

\* x in list
InList(x, list) == \E i \in 1..Len(list) : list[i] = x

Max(a, b) == IF a >= b THEN a ELSE b

(***************************************************************************)
(* rapidfuzz.fuzz.token_sort_ratio(name.lower(), cname.lower())            *)
(***************************************************************************)

\* str.lower() on the ASCII letters.
Lower(s) == [i \in 1..Len(s) |-> IF s[i] >= 65 /\ s[i] <= 90 THEN s[i] + 32 ELSE s[i]]

IsSpace(c) == c = 32 \/ (c >= 9 /\ c <= 13)

\* str.split(): the maximal runs of non-whitespace characters.
RECURSIVE SplitFrom(_, _, _, _)
SplitFrom(s, i, cur, acc) ==
    IF i > Len(s)
    THEN IF cur = << >> THEN acc ELSE Append(acc, cur)
    ELSE IF IsSpace(s[i])
         THEN SplitFrom(s, i + 1, << >>, IF cur = << >> THEN acc ELSE Append(acc, cur))
         ELSE SplitFrom(s, i + 1, Append(cur, s[i]), acc)

Split(s) == SplitFrom(s, 1, << >>, << >>)

\* Python's string order: code point by code point, a proper prefix first.
RECURSIVE StrLess(_, _)
StrLess(a, b) ==
    IF b = << >> THEN FALSE
    ELSE IF a = << >> THEN TRUE
    ELSE IF Head(a) # Head(b) THEN Head(a) < Head(b)
    ELSE StrLess(Tail(a), Tail(b))

\* sorted(tokens): insertion of each token after the tokens not greater than it.
RECURSIVE InsertSorted(_, _)
InsertSorted(tok, sortedToks) ==
    IF sortedToks = << >> THEN <<tok>>
    ELSE IF StrLess(tok, Head(sortedToks)) THEN <<tok>> \o sortedToks
    ELSE <<Head(sortedToks)>> \o InsertSorted(tok, Tail(sortedToks))

RECURSIVE Sorted(_)
Sorted(toks) ==
    IF toks = << >> THEN << >>
    ELSE InsertSorted(toks[Len(toks)], Sorted(SubSeq(toks, 1, Len(toks) - 1)))

\* " ".join(tokens)
RECURSIVE Join(_)
Join(toks) ==
    IF toks = << >> THEN << >>
    ELSE IF Len(toks) = 1 THEN toks[1]
    ELSE toks[1] \o <<32>> \o Join(Tail(toks))

\* One row of the longest-common-subsequence table: cur[j + 1] is the LCS
\* length of the characters read so far of the first string and b[1..j].
RECURSIVE LcsRow(_, _, _, _)
LcsRow(prev, ch, b, cur) ==
    IF Len(cur) = Len(b) + 1 THEN cur
    ELSE LET j == Len(cur)
         IN  LcsRow(prev, ch, b,
                    Append(cur, IF ch = b[j] THEN prev[j] + 1
                                ELSE Max(prev[j + 1], cur[j])))

RECURSIVE LcsRows(_, _, _, _)
LcsRows(a, b, i, prev) ==
    IF i > Len(a) THEN prev[Len(b) + 1]
    ELSE LcsRows(a, b, i + 1, LcsRow(prev, a[i], b, <<0>>))

LcsLength(a, b) == LcsRows(a, b, 1, [j \in 1..(Len(b) + 1) |-> 0])

\* fuzz.ratio: the normalized Indel similarity, 100 * 2 * LCS / (len1 + len2),
\* here rounded down to a whole number (the code only compares it with the
\* whole-number threshold); two empty strings score 100.
Ratio(a, b) ==
    IF Len(a) + Len(b) = 0 THEN 100
    ELSE (200 * LcsLength(a, b)) \div (Len(a) + Len(b))

token_sort_ratio(s1, s2) == Ratio(Join(Sorted(Split(s1))), Join(Sorted(Split(s2))))

\* The score _find_canonical computes for two names, tabulated once.
ScoreTable ==
    [p \in (DOMAIN Text) \X (DOMAIN Text) |->
        token_sort_ratio(Lower(Text[p[1]]), Lower(Text[p[2]]))]

Score(name, cname) == ScoreTable[<<name, cname>>]

(***************************************************************************)
(* EntityResolver                                                          *)
(***************************************************************************)

FUZZY_THRESHOLD == 88

\* Every value the "type" field of a raw entity takes in the model.
TypeUniverse == {"Company", "Person"}

\* Position of the canonical entity with this id in the registry, 0 if none.
RegistryPos(reg, id) ==
    IF \E i \in 1..Len(reg) : reg[i].id = id
    THEN CHOOSE i \in 1..Len(reg) : reg[i].id = id
    ELSE 0

RegistryIds(reg) == {reg[i].id : i \in 1..Len(reg)}

\* The loop of _find_canonical over one type's name index, in insertion order.
RECURSIVE FirstAboveThreshold(_, _, _)
FirstAboveThreshold(entries, name, threshold) ==
    IF entries = << >> THEN None
    ELSE IF Score(name, Head(entries).name) >= threshold THEN Head(entries).id
    ELSE FirstAboveThreshold(Tail(entries), name, threshold)

\* _find_canonical with the type scope dropped: every type's index is searched.
FindCanonicalAnyType(reg, idx, raw_id, etype, name) ==
    IF raw_id \in RegistryIds(reg) THEN raw_id
    ELSE LET hits == {t \in DOMAIN idx :
                        FirstAboveThreshold(idx[t], name, FUZZY_THRESHOLD) # None}
         IN  IF hits = {} THEN None
             ELSE FirstAboveThreshold(idx[CHOOSE t \in hits : TRUE], name, FUZZY_THRESHOLD)

\* _find_canonical with its two steps in the other order: the names first,
\* the exact id only when no name reaches the threshold.
FindCanonicalNamesFirst(reg, idx, raw_id, etype, name) ==
    LET hit == FirstAboveThreshold(DictGet(idx, etype, << >>), name, FUZZY_THRESHOLD)
    IN  IF hit # None THEN hit
        ELSE IF raw_id \in RegistryIds(reg) THEN raw_id ELSE None

_find_canonical(reg, idx, raw_id, etype, name) ==
    IF raw_id \in RegistryIds(reg) THEN raw_id
    ELSE FirstAboveThreshold(DictGet(idx, etype, << >>), name, FUZZY_THRESHOLD)

\* The branch of resolve() that merges a raw entity into an existing canonical
\* entity, with the slip of also taking over the raw entity's type.
MergeIntoRetyping(existing, raw) ==
    [existing EXCEPT
        !.type = raw.type,
        !.properties = DictUpdate(@, raw.properties),
        !.sources = IF raw.source # EmptyDict /\ ~InList(raw.source, @)
                    THEN Append(@, raw.source) ELSE @]

\* The merge branch of resolve() with the update turned around: a key the
\* canonical entity already has keeps its value.
MergeIntoKeepingFirst(existing, raw) ==
    [existing EXCEPT
        !.properties = DictUpdate(raw.properties, @),
        !.sources = IF raw.source # EmptyDict /\ ~InList(raw.source, @)
                    THEN Append(@, raw.source) ELSE @]

\* The branch of resolve() that merges a raw entity into an existing canonical
\* entity: later properties win, a new provenance record is appended.
MergeInto(existing, raw) ==
    [existing EXCEPT
        !.properties = DictUpdate(@, raw.properties),
        !.sources = IF raw.source # EmptyDict /\ ~InList(raw.source, @)
                    THEN Append(@, raw.source) ELSE @]

\* The branch of resolve() that builds a brand-new canonical entity.
NewEntity(raw) ==
    [id |-> raw.id, type |-> raw.type, properties |-> raw.properties,
     sources |-> IF raw.source # EmptyDict THEN <<raw.source>> ELSE << >>]

\* The display name resolve() compares: the "name" property, else the id.
DisplayName(raw) == DictGet(raw.properties, "name", raw.id)

\* One iteration of the loop of resolve(); st = [registry, name_index, alias_map].
ResolveOne(st, raw) ==
    LET raw_id == raw.id
        etype == raw.type
        name == DisplayName(raw)
        canonical_id == _find_canonical(st.registry, st.name_index, raw_id, etype, name)
    IN  IF canonical_id = None
        THEN [registry |-> Append(st.registry, NewEntity(raw)),
              name_index |-> DictUpdate(st.name_index,
                                etype :> Append(DictGet(st.name_index, etype, << >>),
                                                [id |-> raw_id, name |-> name])),
              alias_map |-> DictUpdate(st.alias_map, raw_id :> raw_id)]
        ELSE LET pos == RegistryPos(st.registry, canonical_id)
             IN  [registry |-> [st.registry EXCEPT ![pos] = MergeInto(@, raw)],
                  name_index |-> st.name_index,
                  alias_map |-> DictUpdate(st.alias_map, raw_id :> canonical_id)]

RECURSIVE ResolveLoop(_, _)
ResolveLoop(st, entities) ==
    IF entities = << >> THEN st
    ELSE ResolveLoop(ResolveOne(st, Head(entities)), Tail(entities))

\* resolve(entities): the resolver after the call and the alias_map it returns
\* (the returned entity list is the whole registry).
resolve(reg, idx, entities) ==
    ResolveLoop([registry |-> reg, name_index |-> idx, alias_map |-> EmptyDict], entities)

(***************************************************************************)
(* Inputs of the resolver                                                  *)
(***************************************************************************)

\* Total number of raw entities resolved in one session of the model.
MaxResolved == 3

IdUniverse == {"infosys", "infy"}

PropsUniverse ==
    {EmptyDict, [name |-> "Infosys"], [name |-> "Infosys Limited", ticker |-> "INFY"]}

Provenance(doc, page) == [document_id |-> doc, page_num |-> page]

RawEntities ==
    {[id |-> i, type |-> t, properties |-> p, source |-> Provenance("d1", 1)] :
        i \in IdUniverse, t \in TypeUniverse, p \in PropsUniverse}

\* Non-empty entity lists of at most n entities.
RECURSIVE EntityLists(_)
EntityLists(n) ==
    IF n = 0 THEN {}
    ELSE {<<e>> : e \in RawEntities}
         \cup {<<e>> \o l : e \in RawEntities, l \in EntityLists(n - 1)}

(***************************************************************************)
(* A session of direct resolve() calls on one EntityResolver               *)
(***************************************************************************)

ResolverIdle ==
    /\ registry = << >>
    /\ name_index = EmptyDict
    /\ alias_map = EmptyDict
    /\ batch = << >>
    /\ established = {}
    /\ resolutions = {}
    /\ resolved_count = 0
    /\ nodes = << >>
    /\ edges = << >>
    /\ session = "open"
    /\ summaries = << >>
    /\ last_doc = None
    /\ last_outcome = None
    /\ ingest_count = 0
    /\ committed = 0
    /\ store_before = [nodes |-> << >>, edges |-> << >>]

\* No GraphIngestor has been constructed: no schema statement has run.
IngestorAbsent == schema_log = << >>

\* No document is being extracted.
ExtractorIdle ==
    /\ total_pages = 0
    /\ window = 1
    /\ result = [entities |-> << >>, relationships |-> << >>, errors |-> << >>]
    /\ pc = "idle"
    /\ collected = << >>
    /\ last_response = None
    /\ oracle_calls = 0

\* No helper function is being called on its own.
CallIdle ==
    /\ argument = << >>
    /\ returned = << >>

\* GraphContext(): the three lists empty.
EmptyContext == [nodes |-> << >>, relationships |-> << >>, raw_rows |-> << >>]

\* No query agent is running.
RetrieverIdle ==
    /\ context = EmptyContext
    /\ sent = << >>
    /\ tool_calls = 0

\* No document workers: the resolver is used by its one caller.
WorkersIdle ==
    /\ workers = << >>
    /\ exclusive = FALSE
    /\ lock = 0

\* No Pipeline has been constructed.
PipelineIdle ==
    /\ tree = {}
    /\ files = EmptyDict
    /\ run = << >>
    /\ stage_log = << >>

\* No query() call is in its round loop.
AgentIdle == agent = << >>

ResolverInit ==
    ResolverIdle /\ IngestorAbsent /\ ExtractorIdle /\ CallIdle /\ RetrieverIdle
        /\ WorkersIdle /\ PipelineIdle /\ AgentIdle

\* The record of what each entity of a batch resolved to. An id repeated in
\* the batch keeps only its last alias in the returned alias_map, so the
\* record follows the loop entity by entity.
RECURSIVE ResolutionTrace(_, _)
ResolutionTrace(st, entities) ==
    IF entities = << >> THEN {}
    ELSE LET raw == Head(entities)
             nxt == ResolveOne(st, raw)
         IN  {[id |-> raw.id, type |-> raw.type, name |-> DisplayName(raw),
               canonical |-> nxt.alias_map[raw.id],
               exact |-> raw.id \in RegistryIds(st.registry)]}
             \cup ResolutionTrace(nxt, Tail(entities))

Resolve(entities) ==
    /\ resolved_count + Len(entities) <= MaxResolved
    /\ LET out == resolve(registry, name_index, entities)
       IN  /\ registry' = out.registry
           /\ name_index' = out.name_index
           /\ alias_map' = out.alias_map
           /\ established' = established \cup
                {<<r, out.alias_map[r]>> : r \in DOMAIN out.alias_map}
           /\ resolutions' = resolutions \cup
                ResolutionTrace([registry |-> registry, name_index |-> name_index,
                                 alias_map |-> EmptyDict], entities)
    /\ batch' = entities
    /\ resolved_count' = resolved_count + Len(entities)
    /\ UNCHANGED <<agent_vars, pipeline_vars, worker_vars, retriever_vars, store_vars, session_vars, extract_vars, call_vars>>

ResolverNext ==
    \E entities \in EntityLists(MaxResolved - resolved_count) : Resolve(entities)

SpecResolver == ResolverInit /\ [][ResolverNext]_vars

(***************************************************************************)
(* Document workers sharing one EntityResolver: each worker makes one      *)
(* resolve() call on its document's entity list. The resolver has no lock  *)
(* of its own; a caller may put one exclusive lock around each call. A     *)
(* thread switch is taken between _find_canonical and the branch that      *)
(* acts on what it returned.                                               *)
(***************************************************************************)

\* Number of document workers.
MaxWorkers == 2

\* The entity lists of the workers' documents: an unnamed company, another
\* id carrying the company's name, and a document that renames the company
\* and mentions the new name under the other id too.
WorkerEntityLists ==
    LET entity(id, props) ==
            [id |-> id, type |-> "Company", properties |-> props,
             source |-> Provenance("d1", 1)]
        renamed == [name |-> "Infosys Limited", ticker |-> "INFY"]
    IN  {<<entity("infosys", EmptyDict)>>,
         <<entity("infy", [name |-> "Infosys"])>>,
         <<entity("infosys", renamed), entity("infy", renamed)>>}

WorkersInit ==
    /\ ResolverIdle
    /\ IngestorAbsent
    /\ ExtractorIdle
    /\ CallIdle
    /\ RetrieverIdle
    /\ PipelineIdle
    /\ AgentIdle
    /\ exclusive \in BOOLEAN
    /\ lock = 0
    /\ workers \in [1..MaxWorkers ->
                      {[entities |-> es, next |-> 1, at |-> "waiting",
                        canonical_id |-> None, alias_map |-> EmptyDict] :
                          es \in WorkerEntityLists}]

\* d[id] = entry on a dict kept as the list of its entries in insertion
\* order: an id the dict has keeps its place and takes the new entry.
DictAssign(entries, id, entry) ==
    IF \E i \in 1..Len(entries) : entries[i].id = id
    THEN [i \in 1..Len(entries) |-> IF entries[i].id = id THEN entry ELSE entries[i]]
    ELSE Append(entries, entry)

WorkerFrame ==
    UNCHANGED <<alias_map, batch, established, resolutions, resolved_count, store_vars,
                session_vars, extract_vars, call_vars, retriever_vars, pipeline_vars,
                agent_vars, exclusive>>

\* A worker calls resolve(), taking the lock first when calls are exclusive.
EnterResolve(w) ==
    /\ workers[w].at = "waiting"
    /\ exclusive => lock = 0
    /\ lock' = IF exclusive THEN w ELSE lock
    /\ workers' = [workers EXCEPT ![w].at = "find"]
    /\ UNCHANGED <<registry, name_index>>
    /\ WorkerFrame

\* canonical_id = self._find_canonical(raw_id, etype, name)
FindStep(w) ==
    /\ workers[w].at = "find"
    /\ LET raw == workers[w].entities[workers[w].next]
       IN  workers' = [workers EXCEPT
                          ![w].canonical_id =
                              _find_canonical(registry, name_index, raw.id, raw.type,
                                              DisplayName(raw)),
                          ![w].at = "apply"]
    /\ UNCHANGED <<registry, name_index, lock>>
    /\ WorkerFrame

\* The branch resolve() takes on the canonical_id it found: register the
\* raw entity as a new canonical entity, or merge it into the one found.
ApplyStep(w) ==
    /\ workers[w].at = "apply"
    /\ LET raw == workers[w].entities[workers[w].next]
           canonical_id == workers[w].canonical_id
           last == workers[w].next = Len(workers[w].entities)
       IN  /\ IF canonical_id = None
              THEN /\ registry' = DictAssign(registry, raw.id, NewEntity(raw))
                   /\ name_index' =
                        DictUpdate(name_index,
                            raw.type :> DictAssign(DictGet(name_index, raw.type, << >>),
                                                   raw.id,
                                                   [id |-> raw.id, name |-> DisplayName(raw)]))
              ELSE /\ registry' = [registry EXCEPT
                                      ![RegistryPos(registry, canonical_id)] = MergeInto(@, raw)]
                   /\ name_index' = name_index
           /\ workers' = [workers EXCEPT
                  ![w].alias_map = DictUpdate(@, raw.id :>
                                      (IF canonical_id = None THEN raw.id ELSE canonical_id)),
                  ![w].next = IF last THEN @ ELSE @ + 1,
                  ![w].at = IF last THEN "return" ELSE "find"]
    /\ UNCHANGED lock
    /\ WorkerFrame

\* resolve() returns (the registry's values and the alias_map); the lock,
\* when there is one, is released.
ReturnStep(w) ==
    /\ workers[w].at = "return"
    /\ workers' = [workers EXCEPT ![w].at = "returned"]
    /\ lock' = IF exclusive THEN 0 ELSE lock
    /\ UNCHANGED <<registry, name_index>>
    /\ WorkerFrame

WorkersNext ==
    \E w \in 1..MaxWorkers :
        EnterResolve(w) \/ FindStep(w) \/ ApplyStep(w) \/ ReturnStep(w)

SpecWorkers == WorkersInit /\ [][WorkersNext]_vars

(***************************************************************************)
(* Neo4jWriter: the graph store and its MERGE statements                   *)
(***************************************************************************)

\* Property values of any JSON type carry their type: null, a scalar (str,
\* int, bool), a nested mapping (its items in the dict's order) or a list.
Null == [kind |-> "null"]
StrValue(s) == [kind |-> "str", val |-> s]
IntValue(i) == [kind |-> "int", val |-> i]
DictValue(items) == [kind |-> "dict", val |-> items]
ListValue(elems) == [kind |-> "list", val |-> elems]

\* json.dumps(v): a str, kept as the value it encodes.
JsonDumps(v) == [kind |-> "str", json |-> v]

\* isinstance(i, (str, int, float, bool))
IsPrimitive(v) == v.kind \in {"str", "int", "float", "bool"}

\* The inner loop of _clean_props over the items of a nested mapping: a child
\* that is neither null nor a mapping nor a list becomes the property k_subk.
RECURSIVE FlattenInto(_, _, _)
FlattenInto(clean, k, sub_items) ==
    IF sub_items = << >> THEN clean
    ELSE LET sub_k == Head(sub_items).k
             sub_v == Head(sub_items).v
         IN  FlattenInto(
                 IF sub_v.kind # "null" /\ sub_v.kind \notin {"dict", "list"}
                 THEN DictUpdate(clean, (k \o "_" \o sub_k) :> sub_v)
                 ELSE clean,
                 k, Tail(sub_items))

\* The loop of _clean_props over props.items(), in the dict's order.
RECURSIVE CleanItems(_, _)
CleanItems(items, clean) ==
    IF items = << >> THEN clean
    ELSE LET k == Head(items).k
             v == Head(items).v
         IN  CleanItems(
                 Tail(items),
                 IF v.kind = "null" THEN clean
                 ELSE IF v.kind = "dict" THEN FlattenInto(clean, k, v.val)
                 ELSE IF v.kind = "list"
                 THEN DictUpdate(clean,
                          k :> (IF \A i \in 1..Len(v.val) : IsPrimitive(v.val[i])
                                THEN v ELSE JsonDumps(v)))
                 ELSE DictUpdate(clean, k :> v))

\* _clean_props(props): props is the item list of the dict, the result the
\* dict `clean`.
_clean_props(props) == CleanItems(props, EmptyDict)

\* The items of a property map of the model's extraction files, whose values
\* are strings and null (the order is immaterial: no key is a nested mapping).
RECURSIVE ItemsOf(_)
ItemsOf(d) ==
    IF DOMAIN d = {} THEN << >>
    ELSE LET key == CHOOSE key \in DOMAIN d : TRUE
         IN  <<[k |-> key, v |-> IF d[key] = None THEN Null ELSE StrValue(d[key])]>>
             \o ItemsOf([j \in (DOMAIN d) \ {key} |-> d[j]])

\* _clean_props on such a property map, the cleaned values as plain strings.
CleanScalarProps(props) ==
    LET clean == _clean_props(ItemsOf(props))
    IN  [key \in DOMAIN clean |-> clean[key].val]

\* [s IN $sources | s.document_id]: one entry per provenance record, null
\* when the record has no document_id.
DocumentIds(sources) ==
    [i \in 1..Len(sources) |-> DictGet(sources[i], "document_id", None)]

\* A node is its property map (entity_id, entity_type and sources are
\* properties like the others) and its set of labels.
NodeIds(ns) == {ns[i].properties.entity_id : i \in 1..Len(ns)}

\* What the SET clauses of write_entities do to one matched or created node:
\* n += $props first, then entity_type and sources, then the label.
SetNode(n, entity) ==
    [n EXCEPT !.properties =
                 DictUpdate(DictUpdate(@, CleanScalarProps(entity.properties)),
                            [entity_type |-> entity.type,
                             sources |-> DocumentIds(entity.sources)]),
              !.labels = @ \cup {entity.type}]

\* The node MERGE creates when no node has the entity_id.
BlankNode(entity_id) == [properties |-> [entity_id |-> entity_id], labels |-> {}]

\* The statement of write_entities with CREATE in place of MERGE.
CreateEntityNode(ns, entity) == Append(ns, SetNode(BlankNode(entity.id), entity))

\* The statement of write_entities for one entity: MERGE (n {entity_id}) then
\* SET on every node it matched, or on the one node it created.
MergeEntityNode(ns, entity) ==
    IF entity.id \in NodeIds(ns)
    THEN [i \in 1..Len(ns) |->
            IF ns[i].properties.entity_id = entity.id
            THEN SetNode(ns[i], entity) ELSE ns[i]]
    ELSE Append(ns, SetNode(BlankNode(entity.id), entity))

\* The pattern MERGE (a)-[r:type]->(b) matches: type and both endpoints. An
\* edge is its endpoints (by entity_id), its type and its property map.
SameEdge(e, rel) ==
    /\ e.source_id = rel.source_id
    /\ e.target_id = rel.target_id
    /\ e.type = rel.type

\* r += $props, then r.sources.
SetEdge(e, rel) ==
    [e EXCEPT !.properties =
                 DictUpdate(DictUpdate(@, CleanScalarProps(rel.properties)),
                            [sources |-> DocumentIds(rel.sources)])]

\* The relationship MERGE creates when the pattern matches none.
BlankEdge(rel) ==
    [source_id |-> rel.source_id, target_id |-> rel.target_id, type |-> rel.type,
     properties |-> EmptyDict]

\* The statement of write_relationships with the MATCH clause left out: the
\* relationship is merged whether or not its endpoints have a node.
MergeEdgeUnmatched(ns, es, rel) ==
    IF \E i \in 1..Len(es) : SameEdge(es[i], rel)
    THEN [i \in 1..Len(es) |->
            IF SameEdge(es[i], rel) THEN SetEdge(es[i], rel) ELSE es[i]]
    ELSE Append(es, SetEdge(BlankEdge(rel), rel))

\* The statement of write_relationships for one relationship: MATCH both
\* endpoint nodes (no row, hence no effect, when one is missing), MERGE the
\* relationship of that type between them, SET its properties and sources.
\* Entity ids are unique among the nodes, so the MATCH yields one pair.
MergeEdge(ns, es, rel) ==
    IF rel.source_id \notin NodeIds(ns) \/ rel.target_id \notin NodeIds(ns)
    THEN es
    ELSE IF \E i \in 1..Len(es) : SameEdge(es[i], rel)
         THEN [i \in 1..Len(es) |->
                 IF SameEdge(es[i], rel) THEN SetEdge(es[i], rel) ELSE es[i]]
         ELSE Append(es, SetEdge(BlankEdge(rel), rel))

\* One session.run(): a statement of write_entities or of write_relationships.
RunStatement(store, stmt) ==
    IF stmt.kind = "entity"
    THEN [nodes |-> MergeEntityNode(store.nodes, stmt.arg), edges |-> store.edges]
    ELSE [nodes |-> store.nodes, edges |-> MergeEdge(store.nodes, store.edges, stmt.arg)]

RECURSIVE RunEvery(_, _)
RunEvery(store, stmts) ==
    IF stmts = << >> THEN store
    ELSE RunEvery(RunStatement(store, Head(stmts)), Tail(stmts))

\* The statements of one call run in a single transaction: when statement
\* n + 1 raises, what the n before it did is rolled back.
RunStatementsInOneTransaction(store, stmts, n) ==
    IF n < Len(stmts) THEN store ELSE RunEvery(store, stmts)

\* The first n statements, each committed on its own (auto-commit).
RECURSIVE RunStatements(_, _, _)
RunStatements(store, stmts, n) ==
    IF n = 0 \/ stmts = << >> THEN store
    ELSE RunStatements(RunStatement(store, Head(stmts)), Tail(stmts), n - 1)

BATCH_SIZE == 200

\* _make_batches keeping the full chunks only: range(0, len(items) - size + 1, size).
MakeFullBatches(items, size) ==
    [b \in 1..(Len(items) \div size) |->
        SubSeq(items, (b - 1) * size + 1, b * size)]

\* [items[i : i + size] for i in range(0, len(items), size)]
_make_batches(items, size) ==
    [b \in 1..((Len(items) + size - 1) \div size) |->
        SubSeq(items, (b - 1) * size + 1,
               IF b * size <= Len(items) THEN b * size ELSE Len(items))]

\* The loops of write_entities over chunks of the given size: chunk after
\* chunk, one statement per entity of the chunk, in chunk order.
RECURSIVE ChunkStatements(_)
ChunkStatements(batches) ==
    IF batches = << >> THEN << >>
    ELSE [i \in 1..Len(Head(batches)) |-> [kind |-> "entity", arg |-> Head(batches)[i]]]
         \o ChunkStatements(Tail(batches))

EntityStatements(entities, size) == ChunkStatements(_make_batches(entities, size))

\* write_entities(entities): the chunks are of BATCH_SIZE entities.
write_entities(entities) == EntityStatements(entities, BATCH_SIZE)

\* write_relationships(relationships): one statement per relationship.
write_relationships(relationships) ==
    [i \in 1..Len(relationships) |-> [kind |-> "rel", arg |-> relationships[i]]]

(***************************************************************************)
(* _remap_relationships and GraphIngestor.ingest                           *)
(***************************************************************************)

\* _remap_relationships leaving out the relationships one of whose endpoints
\* the alias map does not know.
RemapKnownEndpointsOnly(raw_rels, aliases) ==
    LET known == SelectSeq(raw_rels,
                           LAMBDA r : r.source_id \in DOMAIN aliases
                                        /\ r.target_id \in DOMAIN aliases)
    IN  [i \in 1..Len(known) |->
            [source_id |-> aliases[known[i].source_id],
             target_id |-> aliases[known[i].target_id],
             type |-> known[i].type,
             properties |-> DictGet(known[i], "properties", EmptyDict),
             sources |-> <<DictGet(known[i], "source", EmptyDict)>>]]

_remap_relationships(raw_rels, aliases) ==
    [i \in 1..Len(raw_rels) |->
        [source_id |-> DictGet(aliases, raw_rels[i].source_id, raw_rels[i].source_id),
         target_id |-> DictGet(aliases, raw_rels[i].target_id, raw_rels[i].target_id),
         type |-> raw_rels[i].type,
         properties |-> DictGet(raw_rels[i], "properties", EmptyDict),
         sources |-> <<DictGet(raw_rels[i], "source", EmptyDict)>>]]

\* sum(1 for oid, cid in alias_map.items() if oid != cid)
Remapped(aliases) == Cardinality({oid \in DOMAIN aliases : aliases[oid] # oid})

\* Steps 1 and 2 of ingest() and the statements step 3 sends to the store.
IngestPlan(reg, idx, data) ==
    LET document_id == DictGet(data, "document_id", "unknown")
        raw_entities == DictGet(data, "entities", << >>)
        raw_relationships == DictGet(data, "relationships", << >>)
        out == resolve(reg, idx, raw_entities)
        resolved_rels == _remap_relationships(raw_relationships, out.alias_map)
    IN  [resolver |-> out,
         statements |-> write_entities(out.registry) \o write_relationships(resolved_rels),
         summary |-> [document_id |-> document_id,
                      entities_resolved |-> Len(out.registry),
                      entities_remapped |-> Remapped(out.alias_map),
                      entities_written |-> Len(out.registry),
                      relationships_written |-> Len(resolved_rels)]]

(***************************************************************************)
(* Inputs of an ingestion session: extraction files                        *)
(***************************************************************************)

\* Number of ingest() calls in one session of the model.
MaxIngests == 2

DocumentIdUniverse == {"d1", "d2"}

\* The entity lists of the model's extraction files; document d is their provenance.
EntityListsOf(d) ==
    LET company == [id |-> "infosys", type |-> "Company", properties |-> EmptyDict,
                    source |-> Provenance(d, 1)]
        alias == [id |-> "infy", type |-> "Company",
                  properties |-> [name |-> "Infosys", ticker |-> None],
                  source |-> Provenance(d, 2)]
        person == [id |-> "infy", type |-> "Person", properties |-> EmptyDict,
                   source |-> Provenance(d, 3)]
    IN  {<<company>>, <<company, alias>>, <<company, alias, person>>, <<person, company>>}

\* The relationship lists of the model's extraction files: the same fact of
\* two filing years, a repeat, and a relationship to an id no entity has
\* followed by one between the document's entities.
RelationshipListsOf(d) ==
    LET rel(src, tgt, year) ==
            [source_id |-> src, target_id |-> tgt, type |-> "RELATED_TO",
             properties |-> [filing_year |-> year], source |-> Provenance(d, 1)]
    IN  {<< >>,
         <<rel("infy", "infosys", "2024")>>,
         <<rel("infy", "infosys", "2024"), rel("infy", "infosys", "2025")>>,
         <<rel("infy", "infosys", "2025"), rel("infy", "infosys", "2025")>>,
         <<rel("infosys", "tcs", "2024"), rel("infy", "infosys", "2024")>>}

\* Extraction files of documents all of whose windows were merged: the
\* "errors" list ExtractionResult.to_dict writes is empty.
CompleteDocuments ==
    UNION {{[document_id |-> d, entities |-> es, relationships |-> rs,
             errors |-> << >>] :
              es \in EntityListsOf(d), rs \in RelationshipListsOf(d)} :
           d \in DocumentIdUniverse}

\* Extraction files of documents one of whose windows failed: the window
\* merger recorded an error for pages 3-5 and kept what the other windows gave.
PartialDocuments ==
    {[document_id |-> d,
      entities |-> <<[id |-> "infosys", type |-> "Company", properties |-> EmptyDict,
                      source |-> Provenance(d, 1)]>>,
      relationships |-> << >>,
      errors |-> <<[pages |-> [first |-> 3, last |-> 5],
                    message |-> "LLM call failed"]>>] :
        d \in DocumentIdUniverse}

\* Extraction files written by hand or by another tool: ingest() takes any
\* JSON file, here one whose entity has a type outside the ontology.
OffOntologyDocuments ==
    {[document_id |-> d,
      entities |-> <<[id |-> "infy", type |-> "Gadget", properties |-> EmptyDict,
                      source |-> Provenance(d, 1)]>>,
      relationships |-> << >>,
      errors |-> << >>] :
        d \in DocumentIdUniverse}

\* Extraction files with near-identical company ids and no "name" property:
\* "infosys" and "infosys12" score 87 against each other, "infosys1" scores
\* 93 against the first and 94 against the second.
NearNameDocuments ==
    LET company(d, id, page) ==
            [id |-> id, type |-> "Company", properties |-> EmptyDict,
             source |-> Provenance(d, page)]
    IN  UNION {{[document_id |-> d, entities |-> es, relationships |-> << >>,
                 errors |-> << >>] :
                  es \in {<<company(d, "infosys", 1), company(d, "infosys12", 2)>>,
                          <<company(d, "infosys1", 3)>>}} :
               d \in DocumentIdUniverse}

Documents ==
    CompleteDocuments \cup PartialDocuments \cup OffOntologyDocuments
        \cup NearNameDocuments

(***************************************************************************)
(* An ingestion session: GraphIngestor used as _run_ingestion and          *)
(* run_ingestion.main use it (ingest each file, then create_indexes; an    *)
(* exception leaves the with-block and ends the session)                   *)
(***************************************************************************)

\* GraphIngestor.__init__: a driver, a fresh resolver, and the uniqueness
\* constraints ensured before anything is written.
Init ==
    /\ ResolverIdle
    /\ schema_log = <<"ensure_constraints">>
    /\ ExtractorIdle
    /\ CallIdle
    /\ RetrieverIdle
    /\ WorkersIdle
    /\ PipelineIdle
    /\ AgentIdle

ResolverStep(data, out) ==
    /\ registry' = out.registry
    /\ name_index' = out.name_index
    /\ alias_map' = out.alias_map
    /\ batch' = data.entities
    /\ established' = established \cup
         {<<r, out.alias_map[r]>> : r \in DOMAIN out.alias_map}
    /\ resolutions' = resolutions \cup
         ResolutionTrace([registry |-> registry, name_index |-> name_index,
                          alias_map |-> EmptyDict], data.entities)
    /\ resolved_count' = resolved_count + Len(data.entities)

\* ingest(path) on a readable file, every store statement succeeding;
\* plan is IngestPlan for the file on the current resolver.
Ingest(data, plan) ==
    /\ session = "open"
    /\ ingest_count < MaxIngests
    /\ LET store == RunStatements([nodes |-> nodes, edges |-> edges],
                                  plan.statements, Len(plan.statements))
       IN  /\ nodes' = store.nodes
           /\ edges' = store.edges
    /\ ResolverStep(data, plan.resolver)
    /\ summaries' = Append(summaries, plan.summary)
    /\ last_doc' = data
    /\ last_outcome' = "returned"
    /\ ingest_count' = ingest_count + 1
    /\ committed' = Len(plan.statements)
    /\ store_before' = [nodes |-> nodes, edges |-> edges]
    /\ UNCHANGED <<agent_vars, pipeline_vars, worker_vars, retriever_vars, session, schema_log, extract_vars, call_vars>>

\* ingest(path) when session.run() raises on statement number done + 1: the
\* statements before it are committed, the exception leaves ingest() (nothing
\* catches it, nothing is retried) and the session's with-block.
IngestStoreError(data, plan, done) ==
    /\ session = "open"
    /\ ingest_count < MaxIngests
    /\ done < Len(plan.statements)
    /\ LET store == RunStatements([nodes |-> nodes, edges |-> edges],
                                  plan.statements, done)
       IN  /\ nodes' = store.nodes
           /\ edges' = store.edges
    /\ ResolverStep(data, plan.resolver)
    /\ last_doc' = data
    /\ last_outcome' = "store_error"
    /\ ingest_count' = ingest_count + 1
    /\ session' = "failed"
    /\ committed' = done
    /\ store_before' = [nodes |-> nodes, edges |-> edges]
    /\ UNCHANGED <<agent_vars, pipeline_vars, worker_vars, retriever_vars, summaries, schema_log, extract_vars, call_vars>>

\* ingest(path) when open() or json.load() raises (the file is missing or is
\* not JSON): nothing has been resolved or written, the exception leaves
\* ingest() and, uncaught in the loop of _run_ingestion, the with-block;
\* Pipeline.run catches it after the session has ended.
IngestReadError ==
    /\ session = "open"
    /\ ingest_count < MaxIngests
    /\ last_doc' = None
    /\ last_outcome' = "read_error"
    /\ ingest_count' = ingest_count + 1
    /\ session' = "failed"
    /\ committed' = 0
    /\ store_before' = [nodes |-> nodes, edges |-> edges]
    /\ UNCHANGED <<agent_vars, pipeline_vars, worker_vars, retriever_vars, resolver_vars, store_vars, summaries, schema_log, extract_vars,
                   call_vars>>

\* create_indexes() called inside the loop, after each file, the session
\* going on with the next file.
CreateIndexesAfterEachFile ==
    /\ session = "open"
    /\ ingest_count > 0
    /\ Len(schema_log) <= ingest_count
    /\ schema_log' = Append(schema_log, "create_indexes")
    /\ UNCHANGED <<agent_vars, pipeline_vars, worker_vars, retriever_vars, resolver_vars, store_vars, session, summaries, last_doc, last_outcome,
                   ingest_count, committed, store_before, extract_vars, call_vars>>

\* gi.create_indexes() after the last file: index declarations only, then
\* the with-block ends.
CreateIndexes ==
    /\ session = "open"
    /\ ingest_count > 0
    /\ session' = "done"
    /\ schema_log' = Append(schema_log, "create_indexes")
    /\ UNCHANGED <<agent_vars, pipeline_vars, worker_vars, retriever_vars, resolver_vars, store_vars, summaries, last_doc, last_outcome,
                   ingest_count, committed, store_before, extract_vars, call_vars>>

Next ==
    \/ /\ session = "open"
       /\ ingest_count < MaxIngests
       /\ \E data \in Documents :
             LET plan == IngestPlan(registry, name_index, data)
             IN  \/ Ingest(data, plan)
                 \/ \E done \in 0..(Len(plan.statements) - 1) :
                       IngestStoreError(data, plan, done)
    \/ IngestReadError
    \/ CreateIndexes

Spec == Init /\ [][Next]_vars

(***************************************************************************)
(* Recovery: after a store error ended a session, the operator runs the    *)
(* ingestion again for the interrupted file                                *)
(***************************************************************************)

\* A new "with GraphIngestor() as gi": a fresh resolver (GraphIngestor
\* creates its own), ensure_constraints again, the store as the failed
\* session left it.
NewSession ==
    /\ session = "failed"
    /\ last_outcome = "store_error"
    /\ registry' = << >>
    /\ name_index' = EmptyDict
    /\ alias_map' = EmptyDict
    /\ summaries' = << >>
    /\ schema_log' = Append(schema_log, "ensure_constraints")
    /\ session' = "restarted"
    /\ UNCHANGED <<agent_vars, pipeline_vars, worker_vars, retriever_vars, batch, established, resolutions, resolved_count, store_vars,
                   last_doc, last_outcome, ingest_count, committed, store_before,
                   extract_vars, call_vars>>

\* ingest(path) of the new session on the file whose ingest was interrupted,
\* every store statement succeeding.
Reingest ==
    /\ session = "restarted"
    /\ LET plan == IngestPlan(registry, name_index, last_doc)
           store == RunStatements([nodes |-> nodes, edges |-> edges],
                                  plan.statements, Len(plan.statements))
       IN  /\ nodes' = store.nodes
           /\ edges' = store.edges
           /\ ResolverStep(last_doc, plan.resolver)
           /\ summaries' = Append(summaries, plan.summary)
    /\ last_outcome' = "returned"
    /\ session' = "redone"
    /\ UNCHANGED <<agent_vars, pipeline_vars, worker_vars, retriever_vars, last_doc, ingest_count, committed, store_before, schema_log,
                   extract_vars, call_vars>>

RecoveryNext == Next \/ NewSession \/ Reingest

SpecRecovery == Init /\ [][RecoveryNext]_vars

(***************************************************************************)
(* EntityRelationExtractor: the window merger                              *)
(***************************************************************************)

ENTITY_TYPES ==
    {"Company", "Segment", "Metric", "MetricValue", "Period", "Risk", "Policy",
     "Person", "Geography", "Product", "Event", "LegalEntity"}

RELATIONSHIP_TYPES ==
    {"HAS_SEGMENT", "REPORTS", "HAS_VALUE", "IN_PERIOD", "COMPARED_TO",
     "INCREASED_BY", "DECREASED_BY", "RELATED_TO", "IMPACTS", "MITIGATES",
     "OPERATES_IN", "EMPLOYED_BY", "OVERSEES", "HAS_RISK", "HAS_POLICY",
     "SUBSIDIARY_OF", "DISCLOSED_IN", "MERGED_INTO", "DIVESTED", "ACQUIRED",
     "SUCCEEDED_BY", "COMPONENT_OF", "ROLL_UP_TO"}

\* The constructor's defaults, which Pipeline._run_extraction uses.
WINDOW_SIZE == 3
STEP_SIZE == 2

Min(a, b) == IF a <= b THEN a ELSE b

\* The loop of _build_windows without its break: it goes on until the start
\* has passed the last page.
RECURSIVE BuildWindowsWithoutBreak(_, _, _, _)
BuildWindowsWithoutBreak(start, total, window_size, step_size) ==
    IF ~(start < total) THEN << >>
    ELSE << <<start, Min(start + window_size, total)>> >>
         \o BuildWindowsWithoutBreak(start + step_size, total, window_size, step_size)

\* The loop of _build_windows from a given start (0-based, end exclusive).
RECURSIVE BuildWindowsFrom(_, _, _, _)
BuildWindowsFrom(start, total, window_size, step_size) ==
    IF ~(start < total) THEN << >>
    ELSE LET end == Min(start + window_size, total)
         IN  IF end = total THEN << <<start, end>> >>
             ELSE << <<start, end>> >>
                  \o BuildWindowsFrom(start + step_size, total, window_size, step_size)

_build_windows(total, window_size, step_size) ==
    BuildWindowsFrom(0, total, window_size, step_size)

\* page_range of a window: the page_number of its first and of its last page
\* (page i of the list, counted from 0, carries page_number i + 1).
PageRange(win) == [first |-> win[1] + 1, last |-> win[2]]

\* The keys whose subscription e["..."] raises KeyError when absent.
EntityKeyError(e) == "id" \notin DOMAIN e
RelationshipKeyError(r) == "source_id" \notin DOMAIN r \/ "target_id" \notin DOMAIN r

\* The entity loop of _parse_llm_response: the entities built before the loop
\* ends or raises.
RECURSIVE ParseEntities(_, _)
ParseEntities(items, document_id) ==
    IF items = << >> THEN [out |-> << >>, raised |-> FALSE]
    ELSE LET e == Head(items)
             etype == DictGet(e, "type", "")
             rest == ParseEntities(Tail(items), document_id)
         IN  IF etype \notin ENTITY_TYPES THEN rest
             ELSE IF EntityKeyError(e) THEN [out |-> << >>, raised |-> TRUE]
             ELSE [out |-> <<[id |-> e.id, type |-> etype,
                              properties |-> DictGet(e, "properties", EmptyDict),
                              source |-> DictUpdate(DictGet(e, "source", EmptyDict),
                                                    "document_id" :> document_id)]>>
                           \o rest.out,
                   raised |-> rest.raised]

RECURSIVE ParseRelationships(_, _)
ParseRelationships(items, document_id) ==
    IF items = << >> THEN [out |-> << >>, raised |-> FALSE]
    ELSE LET r == Head(items)
             rtype == DictGet(r, "type", "")
             rest == ParseRelationships(Tail(items), document_id)
         IN  IF rtype \notin RELATIONSHIP_TYPES THEN rest
             ELSE IF RelationshipKeyError(r) THEN [out |-> << >>, raised |-> TRUE]
             ELSE [out |-> <<[source_id |-> r.source_id, target_id |-> r.target_id,
                              type |-> rtype,
                              properties |-> DictGet(r, "properties", EmptyDict),
                              source |-> DictUpdate(DictGet(r, "source", EmptyDict),
                                                    "document_id" :> document_id)]>>
                           \o rest.out,
                   raised |-> rest.raised]

\* _parse_llm_response without the try/except around json.loads: text that is
\* not JSON raises out of it.
ParseWithoutDecodeGuard(raw, document_id) ==
    IF raw.kind = "text"
    THEN [entities |-> << >>, relationships |-> << >>, err |-> None, raised |-> TRUE]
    ELSE LET es == ParseEntities(DictGet(raw.data, "entities", << >>), document_id)
             rs == ParseRelationships(DictGet(raw.data, "relationships", << >>), document_id)
         IN  [entities |-> es.out, relationships |-> rs.out, err |-> None,
              raised |-> es.raised \/ rs.raised]

\* _parse_llm_response(raw): (entities, relationships, err), or an exception
\* (raised) when a record of a known type lacks a key the code subscripts.
\* raw is text that is not JSON (kind "text") or a JSON object (kind "json").
_parse_llm_response(raw, document_id) ==
    IF raw.kind = "text"
    THEN [entities |-> << >>, relationships |-> << >>, err |-> "JSON decode error",
          raised |-> FALSE]
    ELSE LET es == ParseEntities(DictGet(raw.data, "entities", << >>), document_id)
         IN  IF es.raised
             THEN [entities |-> << >>, relationships |-> << >>, err |-> None,
                   raised |-> TRUE]
             ELSE LET rs == ParseRelationships(DictGet(raw.data, "relationships", << >>),
                                               document_id)
                  IN  [entities |-> es.out, relationships |-> rs.out, err |-> None,
                       raised |-> rs.raised]

\* Position of the entity with this id in a list, 0 if none.
EntityPos(list, id) ==
    IF \E i \in 1..Len(list) : list[i].id = id
    THEN CHOOSE i \in 1..Len(list) : list[i].id = id /\ \A j \in 1..(i - 1) : list[j].id # id
    ELSE 0

\* _merge_entities with the incoming entity put in the place of the one that
\* has its id, instead of updating that one's properties.
RECURSIVE MergeEntitiesReplacing(_, _)
MergeEntitiesReplacing(existing, incoming) ==
    IF incoming = << >> THEN existing
    ELSE LET new == Head(incoming)
             pos == EntityPos(existing, new.id)
         IN  MergeEntitiesReplacing(
                 IF pos # 0 THEN [existing EXCEPT ![pos] = new]
                 ELSE Append(existing, new),
                 Tail(incoming))

\* _merge_entities(existing, incoming): by id, incoming properties win.
RECURSIVE _merge_entities(_, _)
_merge_entities(existing, incoming) ==
    IF incoming = << >> THEN existing
    ELSE LET new == Head(incoming)
             pos == EntityPos(existing, new.id)
         IN  _merge_entities(
                 IF pos # 0
                 THEN [existing EXCEPT ![pos].properties = DictUpdate(@, new.properties)]
                 ELSE Append(existing, new),
                 Tail(incoming))

RelationshipKey(r) ==
    <<r.source_id, r.type, r.target_id, DictGet(r.properties, "filing_year", None)>>

\* _deduplicate_relationships with the last relationship of every key kept
\* (what a dict keyed by the quadruple would give) in place of the first.
DeduplicateKeepingLast(rels) ==
    LET keep == {i \in 1..Len(rels) :
                    \A j \in (i + 1)..Len(rels) :
                        RelationshipKey(rels[j]) # RelationshipKey(rels[i])}
        RECURSIVE Pick(_)
        Pick(i) == IF i > Len(rels) THEN << >>
                   ELSE IF i \in keep THEN <<rels[i]>> \o Pick(i + 1)
                   ELSE Pick(i + 1)
    IN  Pick(1)

\* _deduplicate_relationships(rels): the first relationship of every key.
_deduplicate_relationships(rels) ==
    LET keep == {i \in 1..Len(rels) :
                    \A j \in 1..(i - 1) : RelationshipKey(rels[j]) # RelationshipKey(rels[i])}
        RECURSIVE Pick(_)
        Pick(i) == IF i > Len(rels) THEN << >>
                   ELSE IF i \in keep THEN <<rels[i]>> \o Pick(i + 1)
                   ELSE Pick(i + 1)
    IN  Pick(1)

(***************************************************************************)
(* Inputs of the window merger: the oracle's answers                       *)
(***************************************************************************)

\* Number of pages of the largest document of the model.
MaxPages == 6

ExtractedDocumentId == "d1"

\* Entity records of a payload: well-formed ones, one of a type outside the
\* ontology, one without "id", one without "id" and of an unknown type.
PayloadEntityLists ==
    LET infosys == [id |-> "infosys", type |-> "Company",
                    properties |-> [name |-> "Infosys"], source |-> [page_num |-> 1]]
        renamed == [id |-> "infosys", type |-> "Company",
                    properties |-> [name |-> "Infosys Limited"]]
        gadget == [id |-> "infy", type |-> "Gadget", properties |-> EmptyDict]
        noId == [type |-> "Company", properties |-> [name |-> "Infosys"]]
        noIdGadget == [type |-> "Gadget"]
        retyped == [id |-> "infosys", type |-> "Segment",
                    properties |-> [ticker |-> "INFY"], source |-> [page_num |-> 4]]
    IN  {<< >>, <<infosys>>, <<renamed, gadget>>, <<infosys, noId>>, <<noIdGadget>>,
         <<retyped>>}

PayloadRelationshipLists ==
    LET reports == [source_id |-> "infosys", target_id |-> "infy", type |-> "RELATED_TO",
                    properties |-> [filing_year |-> "2025"]]
        restated == [source_id |-> "infosys", target_id |-> "infy", type |-> "RELATED_TO",
                     properties |-> [filing_year |-> "2025"], source |-> [page_num |-> 3]]
        earlier == [source_id |-> "infosys", target_id |-> "infy", type |-> "RELATED_TO",
                    properties |-> [filing_year |-> "2024"]]
        noSource == [target_id |-> "infy", type |-> "RELATED_TO"]
        unknown == [source_id |-> "infosys", target_id |-> "infy", type |-> "LIKES"]
    IN  {<< >>, <<reports>>, <<unknown, reports>>, <<noSource>>, <<restated, earlier>>}

\* What _call_llm returns for a window: None (the call raised), text that is
\* not JSON, or a JSON object.
Responses ==
    {[kind |-> "failed"], [kind |-> "text"]}
    \cup {[kind |-> "json", data |-> [entities |-> es, relationships |-> rs]] :
            es \in PayloadEntityLists, rs \in PayloadRelationshipLists}

(***************************************************************************)
(* process_document, one oracle call at a time                             *)
(***************************************************************************)

Windows == _build_windows(total_pages, WINDOW_SIZE, STEP_SIZE)

ExtractInit ==
    /\ ResolverIdle
    /\ IngestorAbsent
    /\ CallIdle
    /\ RetrieverIdle
    /\ WorkersIdle
    /\ PipelineIdle
    /\ AgentIdle
    /\ total_pages \in 0..MaxPages
    /\ window = 1
    /\ result = [entities |-> << >>, relationships |-> << >>, errors |-> << >>]
    /\ pc = "running"
    /\ collected = << >>
    /\ last_response = None
    /\ oracle_calls = 0

\* One iteration of the loop of process_document: the oracle call for the
\* window, the parse of its answer, the merge into the result.
WindowStep(response) ==
    /\ pc = "running"
    /\ window <= Len(Windows)
    /\ last_response' = response
    /\ oracle_calls' = oracle_calls + 1
    /\ LET page_range == PageRange(Windows[window])
       IN  IF response.kind = "failed"
           THEN /\ result' = [result EXCEPT !.errors =
                                Append(@, [pages |-> page_range,
                                           message |-> "LLM call failed"])]
                /\ window' = window + 1
                /\ pc' = "running"
           ELSE LET parsed == _parse_llm_response(response, ExtractedDocumentId)
                IN  IF parsed.raised
                    THEN /\ pc' = "raised"
                         /\ UNCHANGED <<result, window>>
                    ELSE IF parsed.err # None
                    THEN /\ result' = [result EXCEPT !.errors =
                                         Append(@, [pages |-> page_range,
                                                    message |-> parsed.err])]
                         /\ window' = window + 1
                         /\ pc' = "running"
                    ELSE /\ result' = [result EXCEPT
                                         !.entities = _merge_entities(@, parsed.entities),
                                         !.relationships = @ \o parsed.relationships]
                         /\ window' = window + 1
                         /\ pc' = "running"
    /\ UNCHANGED <<agent_vars, pipeline_vars, worker_vars, retriever_vars, total_pages, collected, resolver_vars, store_vars, session_vars,
                   call_vars>>

\* After the last window: the relationships are de-duplicated and the result
\* is returned.
ReturnResult ==
    /\ pc = "running"
    /\ window > Len(Windows)
    /\ result' = [result EXCEPT !.relationships = _deduplicate_relationships(@)]
    /\ collected' = result.relationships
    /\ pc' = "returned"
    /\ UNCHANGED <<agent_vars, pipeline_vars, worker_vars, retriever_vars, total_pages, window, last_response, oracle_calls,
                   resolver_vars, store_vars, session_vars, call_vars>>

ExtractNext ==
    \/ \E response \in Responses : WindowStep(response)
    \/ ReturnResult

SpecExtract == ExtractInit /\ [][ExtractNext]_vars

(***************************************************************************)
(* _build_windows called on its own                                        *)
(***************************************************************************)

\* Largest window size of a call.
MaxWindow == 5

\* An extractor constructed with a window size and a smaller step, and a
\* document of up to MaxPages pages.
WindowsInit ==
    /\ ResolverIdle
    /\ IngestorAbsent
    /\ ExtractorIdle
    /\ RetrieverIdle
    /\ WorkersIdle
    /\ PipelineIdle
    /\ AgentIdle
    /\ argument \in {[total |-> n, window_size |-> w, step_size |-> st] :
                        n \in 0..MaxPages, w \in 2..MaxWindow, st \in 1..(MaxWindow - 1)}
    /\ argument.step_size < argument.window_size
    /\ returned = << >>

BuildWindows ==
    /\ returned = << >>
    /\ returned' = <<_build_windows(argument.total, argument.window_size,
                                    argument.step_size)>>
    /\ UNCHANGED <<agent_vars, pipeline_vars, worker_vars, retriever_vars, argument, resolver_vars, store_vars,
                   session_vars, extract_vars>>

WindowsNext == BuildWindows

SpecWindows == WindowsInit /\ [][WindowsNext]_vars

(***************************************************************************)
(* Claims about _build_windows (checked under SpecWindows)                 *)
(***************************************************************************)

\* The pages (0-based) of a window.
PagesOf(win) == win[1]..(win[2] - 1)

\* C30: window layout - for 1 <= S < W, _build_windows(N) returns the
\* windows starting at 0, S, 2S, ... in this order, each W pages long
\* except that the last ends at N, and the last is the first whose end
\* reaches N; every page 0..N-1 lies in some window, consecutive windows
\* share W - S pages, and N = 0 gives no window.
C30_WindowLayout ==
    (returned # << >>)
        => LET wins == returned[1]
               N == argument.total
               W == argument.window_size
               S == argument.step_size
           IN  /\ (N = 0) <=> (wins = << >>)
               /\ \A i \in 1..Len(wins) :
                     /\ wins[i][1] = (i - 1) * S
                     /\ wins[i][2] = Min(wins[i][1] + W, N)
                     /\ (wins[i][1] + W >= N) <=> (i = Len(wins))
               /\ \A page \in 0..(N - 1) :
                     \E i \in 1..Len(wins) : page \in PagesOf(wins[i])
               /\ \A i \in 1..(Len(wins) - 1) :
                     Cardinality(PagesOf(wins[i]) \cap PagesOf(wins[i + 1])) = W - S

\* C30 witness: three or more windows were returned, the last of them
\* clipped to fewer than W pages.
C30_Witness ==
    /\ returned # << >>
    /\ Len(returned[1]) >= 3
    /\ LET last == returned[1][Len(returned[1])]
       IN  /\ last[2] = argument.total
           /\ last[2] - last[1] < argument.window_size

(***************************************************************************)
(* _clean_props called on its own                                          *)
(***************************************************************************)

\* Number of properties of the largest property mapping of the model.
MaxProps == 2

KeyUniverse == {"name", "address", "address_city"}

\* Property values: null, scalars, nested mappings (with a scalar, a null and
\* a list child), lists of one type, of mixed types, and with a member that
\* is no primitive.
ValueUniverse ==
    {Null, StrValue("Infosys"), IntValue(1),
     DictValue(<<[k |-> "city", v |-> StrValue("Pune")]>>),
     DictValue(<<[k |-> "city", v |-> Null], [k |-> "tags", v |-> ListValue(<<IntValue(1)>>)]>>),
     ListValue(<<IntValue(1), IntValue(2)>>),
     ListValue(<<IntValue(1), StrValue("Infosys")>>),
     ListValue(<<IntValue(1), Null>>)}

\* The item lists of at most n properties with pairwise distinct keys.
RECURSIVE PropertyItems(_)
PropertyItems(n) ==
    IF n = 0 THEN {<< >>}
    ELSE PropertyItems(n - 1)
         \cup {Append(items, [k |-> key, v |-> val]) :
                 items \in {l \in PropertyItems(n - 1) : Len(l) = n - 1},
                 key \in KeyUniverse, val \in ValueUniverse}

DistinctKeys(items) ==
    \A i \in 1..Len(items) : \A j \in 1..Len(items) : items[i].k = items[j].k => i = j

CleanInit ==
    /\ ResolverIdle
    /\ IngestorAbsent
    /\ ExtractorIdle
    /\ RetrieverIdle
    /\ WorkersIdle
    /\ PipelineIdle
    /\ AgentIdle
    /\ argument \in {[props |-> items] :
                        items \in {l \in PropertyItems(MaxProps) : DistinctKeys(l)}}
    /\ returned = << >>

CleanProps ==
    /\ returned = << >>
    /\ returned' = <<_clean_props(argument.props)>>
    /\ UNCHANGED <<agent_vars, pipeline_vars, worker_vars, retriever_vars, argument, resolver_vars, store_vars, session_vars, extract_vars>>

CleanNext == CleanProps

SpecClean == CleanInit /\ [][CleanNext]_vars

(***************************************************************************)
(* GraphRetriever: the tools QueryAgent._dispatch calls                    *)
(***************************************************************************)

\* Code points of the query texts the agent hands to run_cypher.
CypherText ==
    "MATCH (n) RETURN n" :> <<77, 65, 84, 67, 72, 32, 40, 110, 41, 32, 82, 69, 84, 85, 82, 78, 32, 110>> @@
    "MATCH (n) RETURN n // offset" :> <<77, 65, 84, 67, 72, 32, 40, 110, 41, 32, 82, 69, 84, 85, 82, 78, 32, 110, 32, 47, 47, 32, 111, 102, 102, 115, 101, 116>> @@
    "match (n) detach delete n" :> <<109, 97, 116, 99, 104, 32, 40, 110, 41, 32, 100, 101, 116, 97, 99, 104, 32, 100, 101, 108, 101, 116, 101, 32, 110>> @@
    "MATCH (n) SET n.x=1" :> <<77, 65, 84, 67, 72, 32, 40, 110, 41, 32, 83, 69, 84, 32, 110, 46, 120, 61, 49>> @@
    "\tmerge (n:Gadget)\n" :> <<9, 109, 101, 114, 103, 101, 32, 40, 110, 58, 71, 97, 100, 103, 101, 116, 41, 10>> @@
    "CREATE(n:Gadget)" :> <<67, 82, 69, 65, 84, 69, 40, 110, 58, 71, 97, 100, 103, 101, 116, 41>> @@
    "MATCH (n" :> <<77, 65, 84, 67, 72, 32, 40, 110>>

\* str.upper() on the ASCII letters.
Upper(s) == [i \in 1..Len(s) |-> IF s[i] >= 97 /\ s[i] <= 122 THEN s[i] - 32 ELSE s[i]]

\* str.strip(): leading and trailing whitespace removed.
RECURSIVE Strip(_)
Strip(s) ==
    IF s = << >> THEN s
    ELSE IF IsSpace(Head(s)) THEN Strip(Tail(s))
    ELSE IF IsSpace(s[Len(s)]) THEN Strip(SubSeq(s, 1, Len(s) - 1))
    ELSE s

\* ("CREATE", "MERGE", "DELETE", "REMOVE", "SET", "DROP", "DETACH")
WriteKeywords ==
    <<<<67, 82, 69, 65, 84, 69>>,
      <<77, 69, 82, 71, 69>>,
      <<68, 69, 76, 69, 84, 69>>,
      <<82, 69, 77, 79, 86, 69>>,
      <<83, 69, 84>>,
      <<68, 82, 79, 80>>,
      <<68, 69, 84, 65, 67, 72>>>>

\* The block-list of run_cypher with the text compared as it is written,
\* not upper-cased.
BlockedAsWritten(cypher) ==
    \E k \in 1..Len(WriteKeywords) : InList(WriteKeywords[k], Split(Strip(cypher)))

\* The block-list of run_cypher: some keyword is one of the
\* whitespace-separated tokens of the stripped, upper-cased text.
Blocked(cypher) ==
    LET upper == Upper(Strip(cypher))
    IN  \E k \in 1..Len(WriteKeywords) : InList(WriteKeywords[k], Split(upper))

IsLetter(c) == (c >= 65 /\ c <= 90) \/ (c >= 97 /\ c <= 122)

\* The store's reading of a query text: a comment runs from // to the end
\* of the line.
RECURSIVE WithoutComments(_, _)
WithoutComments(s, inComment) ==
    IF s = << >> THEN << >>
    ELSE IF inComment
         THEN WithoutComments(Tail(s), Head(s) # 10)
         ELSE IF Len(s) >= 2 /\ s[1] = 47 /\ s[2] = 47
              THEN WithoutComments(Tail(Tail(s)), TRUE)
              ELSE <<Head(s)>> \o WithoutComments(Tail(s), FALSE)

\* The store's reading of a query text: its words are the maximal runs of
\* letters, whatever stands around them (a parenthesis ends a keyword as a
\* blank does), and keywords are case-insensitive.
RECURSIVE WordsFrom(_, _, _, _)
WordsFrom(s, i, cur, acc) ==
    IF i > Len(s)
    THEN IF cur = << >> THEN acc ELSE Append(acc, cur)
    ELSE IF IsLetter(s[i])
         THEN WordsFrom(s, i + 1, Append(cur, s[i]), acc)
         ELSE WordsFrom(s, i + 1, << >>, IF cur = << >> THEN acc ELSE Append(acc, cur))

CypherWords(cypher) == WordsFrom(Upper(WithoutComments(cypher, FALSE)), 1, << >>, << >>)

Count(s, c) == Cardinality({i \in 1..Len(s) : s[i] = c})

\* session.run(cypher) on the default (write-access) session, for the
\* texts of CypherText: a text with an unclosed parenthesis raises; a
\* CREATE or MERGE clause makes the node (n:Gadget) (MERGE when there is
\* none); DELETE removes every node and, detaching, every edge; SET gives
\* every node the property x; anything else reads every node, one row each.
Execute(store, cypher) ==
    LET words == CypherWords(cypher)
        has(w) == InList(w, words)
        gadget == [properties |-> EmptyDict, labels |-> {"Gadget"}]
    IN  IF Count(cypher, 40) # Count(cypher, 41)
        THEN [store |-> store, rows |-> << >>, raised |-> TRUE]
        ELSE IF has(WriteKeywords[1])
        THEN [store |-> [store EXCEPT !.nodes = Append(@, gadget)],
              rows |-> << >>, raised |-> FALSE]
        ELSE IF has(WriteKeywords[2])
        THEN [store |-> IF \E i \in 1..Len(store.nodes) : "Gadget" \in store.nodes[i].labels
                        THEN store
                        ELSE [store EXCEPT !.nodes = Append(@, gadget)],
              rows |-> << >>, raised |-> FALSE]
        ELSE IF has(WriteKeywords[3])
        THEN [store |-> [nodes |-> << >>, edges |-> << >>],
              rows |-> << >>, raised |-> FALSE]
        ELSE IF has(WriteKeywords[5])
        THEN [store |-> [store EXCEPT !.nodes =
                           [i \in 1..Len(@) |->
                               [@[i] EXCEPT !.properties = DictUpdate(@, [x |-> "1"])]]],
              rows |-> << >>, raised |-> FALSE]
        ELSE [store |-> store,
              rows |-> [i \in 1..Len(store.nodes) |-> [n |-> store.nodes[i]]],
              raised |-> FALSE]

MAX_CYPHER_ROWS == 50

\* The first limit elements of a list.
Limit(list, limit) == SubSeq(list, 1, IF Len(list) <= limit THEN Len(list) ELSE limit)

ErrorRow(message) == [error |-> message]

\* run_cypher(cypher): what it returns, the store and the context after it,
\* and whether the text was sent to the store.
run_cypher(store, ctx, cypher) ==
    IF Blocked(cypher)
    THEN [rows |-> <<ErrorRow("Write operations are not allowed.")>>,
          store |-> store, context |-> ctx, sent |-> FALSE]
    ELSE LET out == Execute(store, cypher)
             rows == IF out.raised THEN <<ErrorRow("SyntaxError")>>
                     ELSE Limit(out.rows, MAX_CYPHER_ROWS)
         IN  [rows |-> rows, store |-> out.store,
              context |-> [ctx EXCEPT !.raw_rows = @ \o rows], sent |-> TRUE]

\* _accumulate_nodes: a node is appended unless one with its entity_id is
\* already in the context.
RECURSIVE _accumulate_nodes(_, _)
_accumulate_nodes(ctx_nodes, found) ==
    IF found = << >> THEN ctx_nodes
    ELSE LET n == Head(found)
             seen == {DictGet(ctx_nodes[i].properties, "entity_id", None) :
                         i \in 1..Len(ctx_nodes)}
         IN  _accumulate_nodes(
                 IF DictGet(n.properties, "entity_id", None) \in seen
                 THEN ctx_nodes ELSE Append(ctx_nodes, n),
                 Tail(found))

\* _accumulate_rels: a relationship is appended unless one with its
\* (src, type, tgt) is already in the context.
RECURSIVE _accumulate_rels(_, _)
_accumulate_rels(ctx_rels, found) ==
    IF found = << >> THEN ctx_rels
    ELSE LET r == Head(found)
         IN  _accumulate_rels(
                 IF \E i \in 1..Len(ctx_rels) :
                        /\ ctx_rels[i].src = r.src
                        /\ ctx_rels[i].type = r.type
                        /\ ctx_rels[i].tgt = r.tgt
                 THEN ctx_rels ELSE Append(ctx_rels, r),
                 Tail(found))

\* toLower(n.name) CONTAINS toLower($q)
Contains(s, sub) ==
    \E i \in 1..(Len(s) - Len(sub) + 1) : SubSeq(s, i, i + Len(sub) - 1) = sub

MAX_SEARCH_RESULTS == 20

\* The set of a list's elements.
Range(list) == {list[i] : i \in 1..Len(list)}

\* The elements of a list that are in a set, in list order.
RECURSIVE Filtered(_, _)
Filtered(list, keep) ==
    IF list = << >> THEN << >>
    ELSE (IF Head(list) \in keep THEN <<Head(list)>> ELSE << >>)
         \o Filtered(Tail(list), keep)

\* search_nodes(query) without an entity type: the nodes with a name that
\* contains the query, case-insensitively, at most MAX_SEARCH_RESULTS.
search_nodes(store, ctx, query) ==
    LET matching == {n \in Range(store.nodes) :
                        /\ "name" \in DOMAIN n.properties
                        /\ Contains(Lower(Text[n.properties.name]), Lower(Text[query]))}
        found == Limit(Filtered(store.nodes, matching), MAX_SEARCH_RESULTS)
    IN  [nodes |-> found,
         context |-> [ctx EXCEPT !.nodes = _accumulate_nodes(@, found)]]

\* _rel_to_dict: the relationship's properties, its type and the entity ids
\* of its two ends.
_rel_to_dict(e) ==
    [src |-> e.source_id, tgt |-> e.target_id, type |-> e.type,
     properties |-> e.properties]

\* The rows of MATCH (start {entity_id: $eid})-[r*1..1]-(neighbor): one row
\* for every edge with the start node at either end.
RECURSIVE NeighborRows(_, _, _)
NeighborRows(store, es, eid) ==
    IF es = << >> THEN << >>
    ELSE LET e == Head(es)
             node(id) == CHOOSE n \in Range(store.nodes) :
                            DictGet(n.properties, "entity_id", None) = id
             row(other) == [start |-> node(eid), r |-> e, neighbor |-> node(other)]
         IN  (IF e.source_id = eid THEN <<row(e.target_id)>> ELSE << >>)
             \o (IF e.target_id = eid /\ e.source_id # eid
                 THEN <<row(e.source_id)>> ELSE << >>)
             \o NeighborRows(store, Tail(es), eid)

\* get_neighbors(entity_id) at depth 1 and without a relationship type: the
\* start node and the neighbor of each row, the relationship of each row.
get_neighbors(store, ctx, entity_id) ==
    LET rows == Limit(NeighborRows(store, store.edges, entity_id), MAX_CYPHER_ROWS)
        found_nodes == IF rows = << >> THEN << >>
                       ELSE [i \in 1..(2 * Len(rows)) |->
                               IF i % 2 = 1 THEN rows[(i + 1) \div 2].start
                               ELSE rows[i \div 2].neighbor]
        found_rels == [i \in 1..Len(rows) |-> _rel_to_dict(rows[i].r)]
    IN  [nodes |-> found_nodes, relationships |-> found_rels,
         context |-> [ctx EXCEPT !.nodes = _accumulate_nodes(@, found_nodes),
                                 !.relationships = _accumulate_rels(@, found_rels)]]

(***************************************************************************)
(* QueryAgent.query(): the tool calls of one question, on a graph an       *)
(* ingestion left in the store                                             *)
(***************************************************************************)

\* Number of tool calls dispatched in one query() of the model.
MaxToolCalls == 2

\* The graph each extraction file of document d1 leaves when it is ingested
\* into an empty store, and the empty graph.
StoredGraphs ==
    {[nodes |-> << >>, edges |-> << >>]}
        \cup {RunEvery([nodes |-> << >>, edges |-> << >>],
                       IngestPlan(<< >>, EmptyDict, data).statements) :
                 data \in {d \in CompleteDocuments : d.document_id = "d1"}}

\* The store as ingestion left it, and a retriever whose context has been
\* reset.
GraphLoaded ==
    /\ registry = << >>
    /\ name_index = EmptyDict
    /\ alias_map = EmptyDict
    /\ batch = << >>
    /\ established = {}
    /\ resolutions = {}
    /\ resolved_count = 0
    /\ \E graph \in StoredGraphs :
          /\ nodes = graph.nodes
          /\ edges = graph.edges
          /\ store_before = graph
    /\ session = "done"
    /\ summaries = << >>
    /\ last_doc = None
    /\ last_outcome = None
    /\ ingest_count = 0
    /\ committed = 0
    /\ IngestorAbsent
    /\ ExtractorIdle
    /\ CallIdle
    /\ RetrieverIdle
    /\ WorkersIdle
    /\ PipelineIdle

\* query() up to its first round: reset_context() and the read-only schema
\* summary are done, no tool has been dispatched.
QueryInit == GraphLoaded /\ AgentIdle

QueryFrame ==
    UNCHANGED <<agent_vars, pipeline_vars, worker_vars, resolver_vars, session_vars, extract_vars>>

\* _dispatch("search_nodes", {"query": query})
SearchNodes(query) ==
    /\ tool_calls < MaxToolCalls
    /\ LET out == search_nodes([nodes |-> nodes, edges |-> edges], context, query)
       IN  /\ returned' = <<out.nodes>>
           /\ context' = out.context
    /\ argument' = [tool |-> "search_nodes", query |-> query]
    /\ tool_calls' = tool_calls + 1
    /\ UNCHANGED <<store_vars, sent>>
    /\ QueryFrame

\* _dispatch("get_neighbors", {"entity_id": entity_id})
GetNeighbors(entity_id) ==
    /\ tool_calls < MaxToolCalls
    /\ LET out == get_neighbors([nodes |-> nodes, edges |-> edges], context, entity_id)
       IN  /\ returned' = <<[nodes |-> out.nodes, relationships |-> out.relationships]>>
           /\ context' = out.context
    /\ argument' = [tool |-> "get_neighbors", entity_id |-> entity_id]
    /\ tool_calls' = tool_calls + 1
    /\ UNCHANGED <<store_vars, sent>>
    /\ QueryFrame

\* _dispatch("run_cypher", {"cypher": text})
RunCypher(text) ==
    /\ tool_calls < MaxToolCalls
    /\ LET out == run_cypher([nodes |-> nodes, edges |-> edges], context, CypherText[text])
       IN  /\ returned' = <<out.rows>>
           /\ context' = out.context
           /\ nodes' = out.store.nodes
           /\ edges' = out.store.edges
           /\ sent' = IF out.sent THEN Append(sent, text) ELSE sent
    /\ argument' = [tool |-> "run_cypher", cypher |-> text]
    /\ tool_calls' = tool_calls + 1
    /\ QueryFrame

\* _dispatch of assess_query, plan_retrieval or submit_answer: the
\* arguments are handed back, no retriever method is called.
DispatchWorkflowTool(name) ==
    /\ tool_calls < MaxToolCalls
    /\ argument' = [tool |-> name]
    /\ returned' = <<[status |-> "ok"]>>
    /\ tool_calls' = tool_calls + 1
    /\ UNCHANGED <<store_vars, context, sent>>
    /\ QueryFrame

QueryNext ==
    \/ \E query \in {"infosys", "infy"} : SearchNodes(query)
    \/ \E entity_id \in IdUniverse : GetNeighbors(entity_id)
    \/ \E text \in DOMAIN CypherText : RunCypher(text)
    \/ \E name \in {"assess_query", "plan_retrieval", "submit_answer"} :
          DispatchWorkflowTool(name)

SpecQuery == QueryInit /\ [][QueryNext]_vars

(***************************************************************************)
(* QueryAgent.query: the round loop (app/agent/agent.py)                   *)
(***************************************************************************)

MAX_TOOL_ROUNDS == 12

\* A tool call of an assistant message: the function name and what
\* json.loads makes of the arguments text (Malformed: it raises).
Malformed == [kind |-> "malformed"]

ToolCall(name, args) == [name |-> name, args |-> args]

\* The assistant messages the model answers a round with: no tool call
\* (with and without content), workflow tools, a search, a search without
\* its query, arguments that are no JSON, an answer followed by another
\* call, an empty answer with and without sufficient data.
AssistantMessages ==
    {[content |-> "A", tool_calls |-> << >>],
     [content |-> None, tool_calls |-> << >>],
     [content |-> None,
      tool_calls |-> <<ToolCall("assess_query", EmptyDict),
                       ToolCall("plan_retrieval", EmptyDict)>>],
     [content |-> None,
      tool_calls |-> <<ToolCall("search_nodes", [query |-> "infosys"])>>],
     [content |-> None, tool_calls |-> <<ToolCall("search_nodes", EmptyDict)>>],
     [content |-> None, tool_calls |-> <<ToolCall("search_nodes", Malformed)>>],
     [content |-> None,
      tool_calls |-> <<ToolCall("submit_answer",
                                [answer |-> "A", has_sufficient_data |-> TRUE,
                                 confidence |-> "HIGH"]),
                       ToolCall("search_nodes", [query |-> "infosys"])>>],
     [content |-> None,
      tool_calls |-> <<ToolCall("submit_answer",
                                [answer |-> "", has_sufficient_data |-> TRUE])>>],
     [content |-> None, tool_calls |-> <<ToolCall("submit_answer", EmptyDict)>>]}

\* query() at the top of its loop: reset_context() done, no round made,
\* final_result None (Null in the model), tool_log empty (the model keeps
\* its length).
AgentInit ==
    /\ GraphLoaded
    /\ agent = [at |-> "round", round_num |-> 0, final_result |-> Null,
                tool_log |-> 0, dispatched |-> << >>, answered |-> FALSE,
                forced |-> FALSE, result |-> Null, error |-> None]

\* The for loop over assistant_message.tool_calls from one call on;
\* st = [context, final_result, tool_log, dispatched, raised], raised the
\* exception that left the loop, None while there is none.
RECURSIVE ProcessToolCalls(_, _, _)
ProcessToolCalls(st, store, calls) ==
    IF calls = << >> THEN st
    ELSE LET call == Head(calls)
         IN  IF call.args = Malformed
             THEN [st EXCEPT !.raised = "JSONDecodeError"]
             ELSE IF call.name = "search_nodes" /\ "query" \notin DOMAIN call.args
             THEN [st EXCEPT !.tool_log = @ + 1, !.raised = "KeyError"]
             ELSE IF call.name = "search_nodes"
             THEN ProcessToolCalls(
                      [st EXCEPT !.tool_log = @ + 1,
                                 !.dispatched = Append(@, call.name),
                                 !.context = search_nodes(store, @, call.args.query).context],
                      store, Tail(calls))
             ELSE IF call.name = "submit_answer"
             THEN [st EXCEPT
                      !.tool_log = @ + 1,
                      !.dispatched = Append(@, call.name),
                      !.final_result =
                          [has_sufficient_data |-> DictGet(call.args, "has_sufficient_data", FALSE),
                           answer |-> DictGet(call.args, "answer", ""),
                           confidence |-> DictGet(call.args, "confidence", "LOW"),
                           missing_data |-> DictGet(call.args, "missing_data", None)]]
             ELSE ProcessToolCalls(
                      [st EXCEPT !.tool_log = @ + 1, !.dispatched = Append(@, call.name)],
                      store, Tail(calls))

AgentFrame ==
    UNCHANGED <<resolver_vars, store_vars, session_vars, extract_vars, call_vars,
                worker_vars, pipeline_vars, sent, tool_calls>>

\* The final_result is set and its answer is not empty.
HasAnswer(final_result) ==
    IF final_result = Null THEN FALSE ELSE final_result.answer # ""

\* One round of the loop: the model answers with an assistant message,
\* its tool calls are dispatched in order, and the loop breaks or goes on.
Round(message) ==
    /\ agent.at = "round"
    /\ agent.round_num < MAX_TOOL_ROUNDS
    /\ IF message.tool_calls = << >>
       THEN /\ agent' = [agent EXCEPT
                   !.round_num = @ + 1,
                   !.dispatched = << >>,
                   !.answered = TRUE,
                   !.final_result =
                       IF @ = Null
                       THEN [has_sufficient_data |-> TRUE,
                             answer |-> IF message.content = None THEN "(no answer)"
                                        ELSE message.content,
                             confidence |-> "MEDIUM",
                             missing_data |-> None]
                       ELSE @,
                   !.at = "finish"]
            /\ UNCHANGED context
       ELSE LET out == ProcessToolCalls(
                           [context |-> context, final_result |-> agent.final_result,
                            tool_log |-> agent.tool_log, dispatched |-> << >>,
                            raised |-> None],
                           [nodes |-> nodes, edges |-> edges], message.tool_calls)
            IN  /\ context' = out.context
                /\ agent' = [agent EXCEPT
                       !.round_num = @ + 1,
                       !.dispatched = out.dispatched,
                       !.tool_log = out.tool_log,
                       !.final_result = out.final_result,
                       !.answered = HasAnswer(out.final_result),
                       !.error = out.raised,
                       !.at = IF out.raised # None THEN "raised"
                              ELSE IF HasAnswer(out.final_result) THEN "finish"
                              ELSE IF agent.round_num + 1 = MAX_TOOL_ROUNDS THEN "finish"
                              ELSE "round"]
    /\ AgentFrame

\* client.chat.completions.create raises in a round: nothing in query()
\* catches it.
ModelCallRaises ==
    /\ agent.at = "round"
    /\ agent.round_num < MAX_TOOL_ROUNDS
    /\ agent' = [agent EXCEPT !.round_num = @ + 1, !.dispatched = << >>,
                              !.error = "APIError", !.at = "raised"]
    /\ UNCHANGED context
    /\ AgentFrame

\* The final_result needs _generate_answer_from_context: there is none
\* (_force_answer), or its answer is empty and it has sufficient data.
NeedsGeneration(final_result) ==
    IF final_result = Null THEN TRUE
    ELSE final_result.answer = "" /\ final_result.has_sufficient_data

\* After the loop: the answer is forced or generated from the context
\* where it has to be, and query() returns its result.
Return(generated) ==
    /\ agent.at = "finish"
    /\ LET final_result ==
               IF agent.final_result = Null
               THEN [has_sufficient_data |-> context # EmptyContext,
                     answer |-> generated,
                     confidence |-> "LOW",
                     missing_data |-> "Agent reached maximum rounds before completing workflow."]
               ELSE IF NeedsGeneration(agent.final_result)
               THEN [agent.final_result EXCEPT !.answer = generated]
               ELSE agent.final_result
       IN  agent' = [agent EXCEPT
               !.forced = agent.final_result = Null,
               !.final_result = final_result,
               !.result = [answer |-> final_result.answer,
                           confidence |-> final_result.confidence,
                           has_sufficient_data |-> final_result.has_sufficient_data,
                           missing_data |-> final_result.missing_data,
                           tool_calls |-> agent.tool_log,
                           graph_context |-> context],
               !.at = "returned"]
    /\ UNCHANGED context
    /\ AgentFrame

\* client.chat.completions.create raises in _generate_answer_from_context.
GenerationRaises ==
    /\ agent.at = "finish"
    /\ NeedsGeneration(agent.final_result)
    /\ agent' = [agent EXCEPT !.error = "APIError", !.at = "raised"]
    /\ UNCHANGED context
    /\ AgentFrame

AgentNext ==
    \/ \E message \in AssistantMessages : Round(message)
    \/ ModelCallRaises
    \/ \E generated \in {"G", "(no answer)"} : Return(generated)
    \/ GenerationRaises

SpecAgent == AgentInit /\ [][AgentNext]_vars

(***************************************************************************)
(* Claims about the query agent's tools (checked under SpecQuery)          *)
(***************************************************************************)

\* A write keyword stands in the text as a word of its own, in any letter
\* case: whitespace or an end of the text on both sides.
StandaloneWriteKeyword(s) ==
    \E k \in 1..Len(WriteKeywords) :
        \E i \in 1..Len(s) :
            LET j == i + Len(WriteKeywords[k]) - 1
            IN  /\ j <= Len(s)
                /\ Upper(SubSeq(s, i, j)) = WriteKeywords[k]
                /\ (i = 1 \/ IsSpace(s[i - 1]))
                /\ (j = Len(s) \/ IsSpace(s[j + 1]))

\* C25: write block-list - run_cypher on a text in which a write keyword
\* stands as a word of its own, in any letter case, returns the single
\* error row, sends nothing to the store and leaves the GraphContext (and
\* the store) as they were.
C25_WriteBlockList ==
    [][ (/\ tool_calls' = tool_calls + 1
         /\ argument'.tool = "run_cypher"
         /\ StandaloneWriteKeyword(CypherText[argument'.cypher]))
        => /\ returned' = <<(<<ErrorRow("Write operations are not allowed.")>>)>>
           /\ sent' = sent
           /\ context' = context
           /\ nodes' = nodes /\ edges' = edges
      ]_vars

\* C25 witness: a lower-case DETACH DELETE was refused after a read query
\* had put rows into the context.
C25_Witness ==
    /\ tool_calls = 2
    /\ argument = [tool |-> "run_cypher", cypher |-> "match (n) detach delete n"]
    /\ returned = <<(<<ErrorRow("Write operations are not allowed.")>>)>>
    /\ sent = <<"MATCH (n) RETURN n">>
    /\ Len(context.raw_rows) >= 1
    /\ Len(nodes) >= 1

\* C26 (as stated): the query agent never writes - whatever tool calls
\* query() dispatches, the nodes and edges of the store and their
\* properties are those query() found.
C26_QueryAgentNeverWrites ==
    [nodes |-> nodes, edges |-> edges] = store_before

(***************************************************************************)
(* Claims about _clean_props (checked under SpecClean)                     *)
(***************************************************************************)

\* C21 (as stated): sanitized values are store-acceptable - every value of
\* the mapping _clean_props returns is a non-null scalar or a list of
\* primitives that all have the same type; a list of mixed types has been
\* serialized to a single string.
C21_SanitizedValuesAcceptable ==
    returned # << >> =>
        \A key \in DOMAIN returned[1] :
            LET v == returned[1][key]
            IN  \/ v.kind \in {"str", "int", "float", "bool"}
                \/ /\ v.kind = "list"
                   /\ \A i \in 1..Len(v.val) : \A j \in 1..Len(v.val) :
                         IsPrimitive(v.val[i]) /\ v.val[i].kind = v.val[j].kind

(***************************************************************************)
(* Claims about the ingestion session (checked under Spec)                 *)
(***************************************************************************)

\* The canonical entity of the registry with this id.
Entry(id) == registry[RegistryPos(registry, id)]

\* C4 (as stated): idempotent re-ingestion - an ingest() of the document the
\* previous ingest() of the session was given leaves the registry (ids,
\* types, properties, sources) and the store's nodes and edges as they were.
C4_IdempotentReingestion ==
    [][ ( /\ last_outcome = "returned" /\ last_outcome' = "returned"
          /\ ingest_count' = ingest_count + 1
          /\ last_doc' = last_doc )
        => (registry' = registry /\ nodes' = nodes /\ edges' = edges) ]_vars

LastWrittenRelationships ==
    LET rels == _remap_relationships(last_doc.relationships, alias_map)
    IN  {rels[i] : i \in {k \in 1..Len(rels) :
                            /\ rels[k].source_id \in NodeIds(nodes)
                            /\ rels[k].target_id \in NodeIds(nodes)}}

FilingYear(x) == DictGet(x.properties, "filing_year", None)

\* C6 (as stated): the edge key includes the filing year - after a completed
\* ingest(), every relationship it wrote has an edge of its own (source, type,
\* target, filing_year), so that relationships differing in filing_year are
\* distinct edges, and no two edges are equal in all four.
C6_EdgeKeyIncludesFilingYear ==
    last_outcome = "returned" =>
        /\ \A rel \in LastWrittenRelationships :
              \E i \in 1..Len(edges) :
                 SameEdge(edges[i], rel) /\ FilingYear(edges[i]) = FilingYear(rel)
        /\ \A i \in 1..Len(edges) : \A j \in 1..Len(edges) :
              (SameEdge(edges[i], edges[j]) /\ FilingYear(edges[i]) = FilingYear(edges[j]))
                 => i = j

\* C10 (as stated): a store error during an upsert is surfaced - the ingest()
\* call it happened in still yields a summary for its document, and that
\* summary carries a partial-failure status.
C10_StoreFailureSurfaced ==
    last_outcome = "store_error" =>
        /\ Len(summaries) = ingest_count
        /\ summaries[Len(summaries)].document_id = last_doc.document_id
        /\ DictGet(summaries[Len(summaries)], "status", "ok") = "partial_failure"

\* How many times a schema statement has run.
Runs(stmt) == Cardinality({i \in 1..Len(schema_log) : schema_log[i] = stmt})

UninterruptedStore ==
    LET plan == IngestPlan(<< >>, EmptyDict, last_doc)
    IN  RunStatements(store_before, plan.statements, Len(plan.statements))

\* C23 (as stated): interrupted ingest can be redone - once the document
\* whose ingest was interrupted after a prefix of its store writes has been
\* ingested again with a fresh resolver, the store's nodes and edges equal
\* those of one uninterrupted ingest of that document.
C23_InterruptedIngestRedone ==
    (session = "redone") => ([nodes |-> nodes, edges |-> edges] = UninterruptedStore)

\* Some node of the store holds the entity as write_entities writes it: the
\* cleaned properties, the type (as property and as label), the document
\* ids of its sources.
HoldsAsWritten(ns, entity) ==
    \E i \in 1..Len(ns) :
        LET props == ns[i].properties
            clean == CleanScalarProps(entity.properties)
        IN  /\ props.entity_id = entity.id
            /\ \A k \in DOMAIN clean : k \in DOMAIN props /\ props[k] = clean[k]
            /\ props.entity_type = entity.type
            /\ props.sources = DocumentIds(entity.sources)
            /\ entity.type \in ns[i].labels

\* Largest chunk size the chunking is compared at.
MaxChunk == 3

\* C24: already-written entities survive a later failure - when a store
\* error occurs while write_entities is writing an entity, every entity the
\* call wrote before it is in the store with the properties, type and
\* sources it was written with, every node the call had not reached is as
\* it was, and the chunk size has no part in it: chunks of any size give
\* the same statements in the same order.
C24_WrittenEntitiesSurvive ==
    (last_outcome = "store_error" /\ committed < Len(registry))
        => /\ \A i \in 1..committed : HoldsAsWritten(nodes, registry[i])
           /\ \A i \in 1..Len(store_before.nodes) :
                 (\A j \in 1..committed :
                     registry[j].id # store_before.nodes[i].properties.entity_id)
                     => nodes[i] = store_before.nodes[i]
           /\ \A size \in 1..MaxChunk :
                 EntityStatements(registry, size) = write_entities(registry)

\* C24 witness: the second ingest of a session failed on its third entity,
\* the two before it written.
C24_Witness ==
    /\ last_outcome = "store_error"
    /\ ingest_count = 2
    /\ committed = 2
    /\ Len(registry) = 3
    /\ Len(nodes) >= 2

\* C11 (as stated): a structural failure of one document does not end the
\* session - when ingest() cannot read or parse its input file, a summary
\* reporting an error is recorded for that document and the session stays
\* open for the remaining documents.
C11_StructuralFailureContained ==
    last_outcome = "read_error" =>
        /\ session = "open"
        /\ Len(summaries) = ingest_count
        /\ "error" \in DOMAIN summaries[Len(summaries)]

\* C12 (as stated): partial failures are visible in the report - when the
\* extraction file of a document lists window errors, the summary ingest()
\* returns for that document lists those errors.
C12_PartialFailureVisible ==
    (last_outcome = "returned" /\ last_doc.errors # << >>) =>
        /\ "errors" \in DOMAIN summaries[Len(summaries)]
        /\ summaries[Len(summaries)].errors = last_doc.errors

\* C14 (as stated): an unknown entity type is rejected before the registry -
\* an ingest() of a file all of whose entities have a type outside the closed
\* entity-type set returns and leaves the registry with the entries it had,
\* none of them of such a type.
C14_UnknownTypeRejected ==
    [][ ( /\ last_outcome' = "returned"
          /\ ingest_count' = ingest_count + 1
          /\ \A i \in 1..Len(last_doc'.entities) :
                last_doc'.entities[i].type \notin ENTITY_TYPES )
        => /\ Len(registry') = Len(registry)
           /\ \A i \in 1..Len(registry') : registry'[i].type \in ENTITY_TYPES
      ]_vars

\* C16 (as stated): node provenance lists distinct documents - after a
\* completed ingest(), the `sources` property of every node lists each
\* document id that contributed a provenance record to its canonical entity
\* exactly once.
C16_NodeSourcesDistinct ==
    last_outcome = "returned" =>
        \A n \in 1..Len(nodes) :
            LET listed == nodes[n].properties.sources
                entity == Entry(nodes[n].properties.entity_id)
            IN  /\ \A i \in 1..Len(listed) : \A j \in 1..Len(listed) :
                      listed[i] = listed[j] => i = j
                /\ {listed[i] : i \in 1..Len(listed)}
                      = {entity.sources[i].document_id : i \in 1..Len(entity.sources)}

\* The relationships the last ingest() handed to write_relationships.
LastRemapped == _remap_relationships(last_doc.relationships, alias_map)

\* A relationship one of whose endpoint ids is no canonical entity, hence
\* has no node written by write_entities.
MissingEndpoint(rel) ==
    rel.source_id \notin RegistryIds(registry) \/ rel.target_id \notin RegistryIds(registry)

\* C17: a missing endpoint is skipped, not fatal - after an ingest() that
\* returned, a relationship one of whose endpoint ids has no node has
\* neither an edge nor a node created for it, every other relationship of
\* the batch has its edge, and every edge joins two nodes of the store.
C17_MissingEndpointSkipped ==
    last_outcome = "returned" =>
        /\ \A k \in 1..Len(LastRemapped) :
              IF MissingEndpoint(LastRemapped[k])
              THEN \A i \in 1..Len(edges) : ~SameEdge(edges[i], LastRemapped[k])
              ELSE \E i \in 1..Len(edges) : SameEdge(edges[i], LastRemapped[k])
        /\ NodeIds(nodes) = RegistryIds(registry)
        /\ \A i \in 1..Len(edges) :
              edges[i].source_id \in NodeIds(nodes) /\ edges[i].target_id \in NodeIds(nodes)

\* C17 witness: an ingest() has returned whose batch held a relationship to
\* an id without a node and, after it, a relationship that was written.
C17_Witness ==
    /\ last_outcome = "returned"
    /\ \E k \in 1..Len(LastRemapped) : \E l \in (k + 1)..Len(LastRemapped) :
          /\ MissingEndpoint(LastRemapped[k])
          /\ ~MissingEndpoint(LastRemapped[l])
          /\ \E i \in 1..Len(edges) : SameEdge(edges[i], LastRemapped[l])
    /\ summaries[Len(summaries)].document_id = last_doc.document_id

\* C18 (as stated): the written count is truthful - the relationships_written
\* of the summary an ingest() returns is the number of relationships of its
\* batch for which an edge was upserted; a relationship skipped for a
\* missing endpoint node is not counted.
C18_WrittenCountTruthful ==
    last_outcome = "returned" =>
        summaries[Len(summaries)].relationships_written
            = Cardinality({k \in 1..Len(LastRemapped) : ~MissingEndpoint(LastRemapped[k])})

\* C19 (as stated): the remapper's output is deduplicated - the relationship
\* list _remap_relationships produces for a document holds no two records
\* with the same (source_id, type, target_id) after the endpoints have been
\* rewritten to canonical ids.
C19_RemapperDeduplicates ==
    last_outcome = "returned" =>
        \A k \in 1..Len(LastRemapped) : \A l \in 1..Len(LastRemapped) :
            ( /\ LastRemapped[k].source_id = LastRemapped[l].source_id
              /\ LastRemapped[k].type = LastRemapped[l].type
              /\ LastRemapped[k].target_id = LastRemapped[l].target_id )
                => k = l

\* The document ids listed in a `sources` property.
Listed(sources) == {sources[i] : i \in 1..Len(sources)}

\* C20 (as stated): edge provenance lists the contributing documents - an
\* ingest() that returns leaves on every edge the document ids its `sources`
\* property already listed, and the edge of every relationship it wrote
\* lists the document that contributed it.
C20_EdgeSourcesAccumulate ==
    [][ (last_outcome' = "returned" /\ ingest_count' = ingest_count + 1)
        => /\ \A i \in 1..Len(edges) :
                 Listed(edges[i].properties.sources)
                    \subseteq Listed(edges'[i].properties.sources)
           /\ \A i \in 1..Len(edges') :
                 (\E k \in 1..Len(last_doc'.relationships) :
                     SameEdge(edges'[i],
                              _remap_relationships(last_doc'.relationships, alias_map')[k]))
                    => last_doc'.document_id \in Listed(edges'[i].properties.sources)
      ]_vars

(***************************************************************************)
(* Claims about the window merger (checked under SpecExtract)              *)
(***************************************************************************)

LastError(res) == res.errors[Len(res.errors)]

\* C8: window failure is contained - when the oracle call for a window fails
\* or its answer is not JSON, exactly one error entry naming that window's
\* page range is appended, the accumulated entities and relationships are
\* left as they were, and the loop goes on with the next window; a document
\* is returned only after every window has been sent to the oracle.
C8_WindowFailureContained ==
    [][ /\ ( /\ pc = "running"
             /\ oracle_calls' = oracle_calls + 1
             /\ last_response'.kind \in {"failed", "text"} )
           => /\ Len(result'.errors) = Len(result.errors) + 1
              /\ SubSeq(result'.errors, 1, Len(result.errors)) = result.errors
              /\ LastError(result').pages = PageRange(Windows[window])
              /\ result'.entities = result.entities
              /\ result'.relationships = result.relationships
              /\ pc' = "running"
              /\ window' = window + 1
        /\ (pc' = "returned") => (oracle_calls' = Len(Windows))
      ]_vars

\* C8 witness: a document of three windows has been returned, its second
\* window failed, the other two contributed entities and relationships.
C8_Witness ==
    /\ pc = "returned"
    /\ Len(Windows) = 3
    /\ Len(result.errors) = 1
    /\ result.errors[1].pages = PageRange(Windows[2])
    /\ Len(result.entities) >= 1
    /\ Len(result.relationships) >= 1

\* The positions of a relationship list that hold the first relationship of
\* their (source_id, type, target_id, filing_year) quadruple.
FirstSeen(rels) ==
    {i \in 1..Len(rels) :
        \A j \in 1..(i - 1) : RelationshipKey(rels[j]) # RelationshipKey(rels[i])}

\* C13: window-overlap dedup - the relationship list process_document returns
\* holds no two relationships of the same (source_id, type, target_id,
\* filing_year) quadruple, whichever windows produced them, and is exactly
\* the first-seen relationship of every quadruple, in the order seen.
C13_WindowOverlapDedup ==
    pc = "returned" =>
        LET out == result.relationships
            first == FirstSeen(collected)
        IN  /\ \A i \in 1..Len(out) : \A j \in 1..Len(out) :
                  RelationshipKey(out[i]) = RelationshipKey(out[j]) => i = j
            /\ Len(out) = Cardinality(first)
            /\ \A k \in 1..Len(out) :
                  out[k] = collected[CHOOSE i \in first :
                                        Cardinality({j \in first : j < i}) = k - 1]

\* C13 witness: a document has been returned two of whose windows reported
\* the same quadruple with different provenance, next to a relationship of
\* another filing year; one copy of the repeated quadruple was discarded.
C13_Witness ==
    /\ pc = "returned"
    /\ Len(result.relationships) = 2
    /\ Len(collected) > Len(result.relationships)
    /\ \E i \in 1..Len(collected) : \E j \in (i + 1)..Len(collected) :
          /\ RelationshipKey(collected[i]) = RelationshipKey(collected[j])
          /\ collected[i] # collected[j]

\* A JSON payload in which an entity lacks "id" or a relationship lacks
\* "source_id" or "target_id".
MissingRequiredKey(data) ==
    \/ \E i \in 1..Len(data.entities) : EntityKeyError(data.entities[i])
    \/ \E i \in 1..Len(data.relationships) : RelationshipKeyError(data.relationships[i])

\* C9 (as stated): missing required keys are a recoverable per-window error -
\* when a window's JSON payload has an entity without "id" or a relationship
\* without "source_id" or "target_id", process_document records an error for
\* that window and proceeds to the next window.
C9_MissingKeysRecoverable ==
    [][ ( /\ pc = "running"
          /\ oracle_calls' = oracle_calls + 1
          /\ last_response'.kind = "json"
          /\ MissingRequiredKey(last_response'.data) )
        => /\ pc' = "running"
           /\ window' = window + 1
           /\ Len(result'.errors) = Len(result.errors) + 1
           /\ LastError(result').pages = PageRange(Windows[window])
      ]_vars

\* A JSON payload with an entity or a relationship whose type is outside the
\* ontology.
HasInvalidType(data) ==
    \/ \E i \in 1..Len(data.entities) :
          DictGet(data.entities[i], "type", "") \notin ENTITY_TYPES
    \/ \E i \in 1..Len(data.relationships) :
          DictGet(data.relationships[i], "type", "") \notin RELATIONSHIP_TYPES

\* The positions of a payload list whose record has a type of the given set.
ValidPositions(items, types) ==
    {i \in 1..Len(items) : DictGet(items[i], "type", "") \in types}

\* C15 (as stated): an invalid type drops only the offending record - when a
\* window's JSON payload has an entity or a relationship of a type outside
\* the ontology, no window error is recorded, the loop goes on, every other
\* relationship of the payload is appended to the result in payload order
\* and every other entity of the payload is in the result.
C15_InvalidTypeDropsOnlyRecord ==
    [][ ( /\ pc = "running"
          /\ oracle_calls' = oracle_calls + 1
          /\ last_response'.kind = "json"
          /\ HasInvalidType(last_response'.data) )
        => LET data == last_response'.data
               valid_rels == ValidPositions(data.relationships, RELATIONSHIP_TYPES)
               valid_ents == ValidPositions(data.entities, ENTITY_TYPES)
               added == SubSeq(result'.relationships, Len(result.relationships) + 1,
                               Len(result'.relationships))
           IN  /\ pc' = "running"
               /\ window' = window + 1
               /\ result'.errors = result.errors
               /\ Len(added) = Cardinality(valid_rels)
               /\ \A k \in 1..Len(added) :
                     LET r == data.relationships[
                                 CHOOSE i \in valid_rels :
                                    Cardinality({j \in valid_rels : j < i}) = k - 1]
                     IN  /\ added[k].source_id = r.source_id
                         /\ added[k].target_id = r.target_id
                         /\ added[k].type = r.type
               /\ \A i \in valid_ents :
                     \E k \in 1..Len(result'.entities) :
                        /\ result'.entities[k].id = data.entities[i].id
                        /\ result'.entities[k].type = data.entities[i].type
      ]_vars

\* The positions of an incoming list whose entity has the id and supplies
\* the property key.
Suppliers(incoming, id, key) ==
    {j \in 1..Len(incoming) : incoming[j].id = id /\ key \in DOMAIN incoming[j].properties}

Latest(positions) == CHOOSE i \in positions : \A j \in positions : j <= i

\* C31: within-document merge by id - after each merged window the
\* document's entities have pairwise distinct ids; every entity that was
\* there keeps its position, id, type and source, and its properties are
\* what they were, overwritten key by key by the last incoming entity of
\* its id that supplies the key; the entities added are incoming ones whose
\* id was not there.
C31_MergeById ==
    [][ (/\ pc = "running"
         /\ oracle_calls' = oracle_calls + 1
         /\ last_response'.kind = "json"
         /\ pc' = "running"
         /\ Len(result'.errors) = Len(result.errors))
        => LET incoming == _parse_llm_response(last_response', ExtractedDocumentId).entities
               old == result.entities
               new == result'.entities
           IN  /\ \A i \in 1..Len(new) : \A j \in 1..Len(new) :
                     new[i].id = new[j].id => i = j
               /\ Len(new) >= Len(old)
               /\ \A i \in 1..Len(old) :
                     /\ new[i].id = old[i].id
                     /\ new[i].type = old[i].type
                     /\ new[i].source = old[i].source
                     /\ DOMAIN new[i].properties =
                           DOMAIN old[i].properties
                             \cup UNION {DOMAIN incoming[j].properties :
                                           j \in {k \in 1..Len(incoming) :
                                                    incoming[k].id = old[i].id}}
                     /\ \A key \in DOMAIN new[i].properties :
                           new[i].properties[key] =
                             IF Suppliers(incoming, old[i].id, key) = {}
                             THEN old[i].properties[key]
                             ELSE incoming[Latest(Suppliers(incoming, old[i].id, key))]
                                    .properties[key]
               /\ \A i \in (Len(old) + 1)..Len(new) :
                     \E j \in 1..Len(incoming) :
                        /\ incoming[j].id = new[i].id
                        /\ incoming[j].type = new[i].type
                        /\ incoming[j].source = new[i].source
                        /\ \A k \in 1..Len(old) : old[k].id # new[i].id
      ]_vars

\* C31 witness: the entity first seen as a Company on page 1 was seen again
\* as a Segment with a ticker and again with another name: it is still the
\* Company of page 1, with the ticker and the last name.
C31_Witness ==
    /\ Len(result.entities) >= 1
    /\ result.entities[1].id = "infosys"
    /\ result.entities[1].type = "Company"
    /\ result.entities[1].source = [page_num |-> 1, document_id |-> ExtractedDocumentId]
    /\ result.entities[1].properties = [name |-> "Infosys Limited", ticker |-> "INFY"]

(***************************************************************************)
(* Claims about the resolver (checked under SpecResolver)                  *)
(***************************************************************************)

\* C1 (as stated): alias stability - once some resolve() call has returned
\* the alias r -> c, every later call whose batch contains the id r returns
\* r -> c again: no raw id is ever returned with two different canonical ids.
C1_AliasStability ==
    \A p \in established : \A q \in established : p[1] = q[1] => p[2] = q[2]

\* C2 (as stated): name separation - no two distinct canonical entities of
\* the same type have display names (the "name" property, else the id) whose
\* score reaches the threshold at which resolve() merges.
C2_NameSeparation ==
    \A i \in 1..Len(registry) : \A j \in 1..Len(registry) :
        (i # j /\ registry[i].type = registry[j].type)
            => Score(DisplayName(registry[i]), DisplayName(registry[j])) < FUZZY_THRESHOLD

C7_CanonicalIdentityFixed ==
    [][ /\ Len(registry') >= Len(registry)
        /\ \A i \in 1..Len(registry) :
              /\ registry'[i].id = registry[i].id
              /\ registry'[i].type = registry[i].type
        /\ \A j \in (Len(registry) + 1)..Len(registry') :
              \E x \in resolutions' :
                 /\ ~x.exact /\ x.canonical = x.id
                 /\ x.id = registry'[j].id /\ x.type = registry'[j].type
        /\ \A i \in 1..Len(registry') : \A j \in 1..Len(registry') :
              registry'[i].id = registry'[j].id => i = j
      ]_vars

\* C7 witness: a raw entity of another type has been merged by exact id into
\* a canonical entity, which kept the type it was registered with.
C7_Witness ==
    \E x \in resolutions :
        /\ x.exact
        /\ Entry(x.canonical).type # x.type
        /\ Len(registry) >= 2

\* C27: the exact-id check precedes fuzzy matching - a raw entity whose id
\* is a canonical id when it is resolved is aliased to itself, whatever the
\* names; resolved alone, it leaves the registry's length and the name index
\* as they were and its properties are merged into the entry with its id.
C27_ExactIdFirst ==
    /\ [] (\A x \in resolutions : x.exact => x.canonical = x.id)
    /\ [][ (/\ resolved_count' = resolved_count + 1
            /\ Len(batch') = 1
            /\ batch'[1].id \in RegistryIds(registry))
           => LET raw == batch'[1]
                  pos == RegistryPos(registry, raw.id)
              IN  /\ alias_map' = (raw.id :> raw.id)
                  /\ name_index' = name_index
                  /\ Len(registry') = Len(registry)
                  /\ registry'[pos].properties =
                        DictUpdate(registry[pos].properties, raw.properties)
                  /\ \A i \in 1..Len(registry) : i # pos => registry'[i] = registry[i]
         ]_vars

\* C27 witness: the last raw entity, resolved alone, was aliased to itself by
\* its id although the first entry of its type's name index that reaches the
\* threshold against its name is another canonical entity.
C27_Witness ==
    /\ Len(batch) = 1
    /\ alias_map = (batch[1].id :> batch[1].id)
    /\ [id |-> batch[1].id, type |-> batch[1].type, name |-> DisplayName(batch[1]),
        canonical |-> batch[1].id, exact |-> TRUE] \in resolutions
    /\ FirstAboveThreshold(DictGet(name_index, batch[1].type, << >>),
                           DisplayName(batch[1]), FUZZY_THRESHOLD)
          \notin {None, batch[1].id}

\* The registry positions of the canonical entities of a raw entity's type
\* whose display name scores at or above the threshold against its name.
Candidates(reg, raw) ==
    {i \in 1..Len(reg) :
        /\ reg[i].type = raw.type
        /\ Score(DisplayName(raw), DisplayName(reg[i])) >= FUZZY_THRESHOLD}

Earliest(positions) == CHOOSE i \in positions : \A j \in positions : i <= j

\* C28 (as stated): first-above-threshold tie-break - a raw entity whose id
\* is not canonical, resolved alone while one or more canonical entities of
\* its type score at or above the threshold, is aliased to the one
\* registered earliest; no registry entry is added and its provenance is
\* among that entity's sources.
C28_FirstAboveThreshold ==
    [][ (/\ resolved_count' = resolved_count + 1
         /\ Len(batch') = 1
         /\ batch'[1].id \notin RegistryIds(registry)
         /\ Candidates(registry, batch'[1]) # {})
        => LET raw == batch'[1]
               first == Earliest(Candidates(registry, raw))
           IN  /\ alias_map' = (raw.id :> registry[first].id)
               /\ Len(registry') = Len(registry)
               /\ InList(raw.source, registry'[first].sources)
      ]_vars

\* C29: additive property merge - every resolve() call leaves each
\* canonical entity all the property keys it had; a raw entity resolved
\* alone leaves its canonical entity the union of the entity's properties
\* and its own, its own values winning, and every other entity's properties
\* as they were; the last raw entity of any batch finds all its values in
\* its canonical entity.
C29_AdditivePropertyMerge ==
    [][ /\ \A i \in 1..Len(registry) :
              DOMAIN registry[i].properties \subseteq DOMAIN registry'[i].properties
        /\ (resolved_count' > resolved_count)
              => LET raw == batch'[Len(batch')]
                     pos == RegistryPos(registry', alias_map'[raw.id])
                 IN  \A k \in DOMAIN raw.properties :
                        /\ k \in DOMAIN registry'[pos].properties
                        /\ registry'[pos].properties[k] = raw.properties[k]
        /\ (resolved_count' = resolved_count + 1)
              => LET raw == batch'[1]
                     pos == RegistryPos(registry', alias_map'[raw.id])
                     old == IF pos <= Len(registry) THEN registry[pos].properties
                            ELSE EmptyDict
                     new == registry'[pos].properties
                 IN  /\ DOMAIN new = (DOMAIN old) \cup (DOMAIN raw.properties)
                     /\ \A k \in DOMAIN new :
                           new[k] = IF k \in DOMAIN raw.properties
                                    THEN raw.properties[k] ELSE old[k]
                     /\ \A i \in 1..Len(registry) :
                           i # pos => registry'[i].properties = registry[i].properties
      ]_vars

\* C29 witness: a canonical entity holds the ticker an earlier raw entity
\* supplied and the name a later one overwrote.
C29_Witness ==
    \E i \in 1..Len(registry) :
        /\ registry[i].properties = [name |-> "Infosys", ticker |-> "INFY"]
        /\ Len(batch) = 1
        /\ batch[1].properties = [name |-> "Infosys"]
        /\ alias_map[batch[1].id] = registry[i].id

(***************************************************************************)
(* Pipeline: discover_filings, FilingInfo and Pipeline.run                 *)
(* (app/pipeline.py)                                                       *)
(***************************************************************************)

\* Code points of the directory and file names of the model's filings tree.
FileText ==
    "infosys" :> <<105, 110, 102, 111, 115, 121, 115>> @@
    "tcs" :> <<116, 99, 115>> @@
    "2024" :> <<50, 48, 50, 52>> @@
    "2025" :> <<50, 48, 50, 53>> @@
    "draft" :> <<100, 114, 97, 102, 116>> @@
    "form20f.pdf" :> <<102, 111, 114, 109, 50, 48, 102, 46, 112, 100, 102>> @@
    "form-20f.pdf" :> <<102, 111, 114, 109, 45, 50, 48, 102, 46, 112, 100, 102>> @@
    "form_20f.pdf" :> <<102, 111, 114, 109, 95, 50, 48, 102, 46, 112, 100, 102>> @@
    "notes.txt" :> <<110, 111, 116, 101, 115, 46, 116, 120, 116>>

\* Path(file_name).stem: the name without its last suffix.
Stem(name) ==
    LET dots == {i \in 2..(Len(name) - 1) : name[i] = 46}
    IN  IF dots = {} THEN name
        ELSE SubSeq(name, 1, (CHOOSE i \in dots : \A j \in dots : j <= i) - 1)

\* str.endswith(suffix)
EndsWith(s, suffix) ==
    Len(s) >= Len(suffix) /\ SubSeq(s, Len(s) - Len(suffix) + 1, Len(s)) = suffix

\* re.sub(r"[^a-z0-9]+", "_", text): each maximal run of other characters
\* becomes one underscore.
RECURSIVE Underscored(_, _)
Underscored(text, inRun) ==
    IF text = << >> THEN << >>
    ELSE IF (Head(text) >= 97 /\ Head(text) <= 122) \/ (Head(text) >= 48 /\ Head(text) <= 57)
    THEN <<Head(text)>> \o Underscored(Tail(text), FALSE)
    ELSE (IF inRun THEN << >> ELSE <<95>>) \o Underscored(Tail(text), TRUE)

\* str.strip("_")
RECURSIVE StripUnderscores(_)
StripUnderscores(text) ==
    IF text = << >> THEN text
    ELSE IF Head(text) = 95 THEN StripUnderscores(Tail(text))
    ELSE IF text[Len(text)] = 95 THEN StripUnderscores(SubSeq(text, 1, Len(text) - 1))
    ELSE text

_slugify(text) == StripUnderscores(Underscored(Strip(Lower(text)), FALSE))

\* re.match(r"^\d{4}$", year)
IsYear(year) == Len(year) = 4 /\ \A i \in 1..4 : year[i] >= 48 /\ year[i] <= 57

\* FilingInfo of the file at <company_dir>/<year_dir>/<file_name>, as
\* discover_filings builds it; strings are code-point sequences, pdf_path
\* is the file's place in the tree.
FilingInfo(entry) ==
    LET company_name == Strip(Lower(FileText[entry[1]]))
        file_name == FileText[entry[3]]
    IN  [pdf_path |-> entry,
         company_name |-> company_name,
         year |-> Strip(FileText[entry[2]]),
         file_name |-> file_name,
         document_id |-> company_name \o <<95>> \o _slugify(Stem(file_name)),
         document_name |-> file_name]

\* FilingInfo.parsed_json_path: PARSING_OUTPUT_DIR/parsed_<company>_<base>.json
parsed_json_path(filing) ==
    <<"parsing",
      <<112, 97, 114, 115, 101, 100, 95>> \o filing.company_name \o <<95>>
         \o _slugify(Stem(filing.file_name)) \o <<46, 106, 115, 111, 110>>>>

\* FilingInfo.extracted_json_path: EXTRACTION_OUTPUT_DIR/extracted_<company>_<base>.json
extracted_json_path(filing) ==
    <<"extraction",
      <<101, 120, 116, 114, 97, 99, 116, 101, 100, 95>> \o filing.company_name \o <<95>>
         \o _slugify(Stem(filing.file_name)) \o <<46, 106, 115, 111, 110>>>>

\* The order of the three nested loops over sorted(os.listdir(...)).
ListedBefore(a, b) ==
    \/ StrLess(FileText[a[1]], FileText[b[1]])
    \/ a[1] = b[1] /\ StrLess(FileText[a[2]], FileText[b[2]])
    \/ a[1] = b[1] /\ a[2] = b[2] /\ StrLess(FileText[a[3]], FileText[b[3]])

RECURSIVE Listing(_)
Listing(entries) ==
    IF entries = {} THEN << >>
    ELSE LET first == CHOOSE x \in entries : \A y \in entries \ {x} : ListedBefore(x, y)
         IN  <<first>> \o Listing(entries \ {first})

\* discover_filings(None): the PDF files of the four-digit year directories,
\* company by company, year by year, name by name.
discover_filings(entries) ==
    LET kept == {e \in entries :
                    /\ IsYear(Strip(FileText[e[2]]))
                    /\ EndsWith(Lower(FileText[e[3]]), <<46, 112, 100, 102>>)}
        listed == Listing(kept)
    IN  [i \in 1..Len(listed) |-> FilingInfo(listed[i])]

\* Largest number of files in the filings tree of the model.
MaxFilings == 2

\* The files a tree of the model may hold: the same form of two years, two
\* spellings of one name, another company's form, a file in a directory
\* that is no year and a file that is no PDF.
DirectoryEntries ==
    {<<"infosys", "2024", "form20f.pdf">>,
     <<"infosys", "2025", "form20f.pdf">>,
     <<"infosys", "2025", "form-20f.pdf">>,
     <<"infosys", "2025", "form_20f.pdf">>,
     <<"tcs", "2025", "form20f.pdf">>,
     <<"infosys", "draft", "form20f.pdf">>,
     <<"tcs", "2025", "notes.txt">>}

\* What _run_parsing writes for a filing: the parser's document, of which
\* the model keeps the document id ("pdf" records whose PDF was parsed).
ParsedDocument(filing) == [document_id |-> filing.document_id, pdf |-> filing.pdf_path]

\* The output directories before the run: empty, or holding the outputs an
\* earlier run left for the first filing.
EarlierOutputs(entries) ==
    LET filings == discover_filings(entries)
    IN  IF filings = << >> THEN {EmptyDict}
        ELSE {EmptyDict,
              (parsed_json_path(filings[1]) :> ParsedDocument(filings[1]))
                 @@ (extracted_json_path(filings[1]) :> ParsedDocument(filings[1]))}

\* Pipeline(skip_existing), run() not yet called.
PipelineInit ==
    /\ ResolverIdle
    /\ IngestorAbsent
    /\ ExtractorIdle
    /\ CallIdle
    /\ RetrieverIdle
    /\ WorkersIdle
    /\ AgentIdle
    /\ tree \in {t \in SUBSET DirectoryEntries : Cardinality(t) <= MaxFilings}
    /\ files \in EarlierOutputs(tree)
    /\ \E skip_existing \in BOOLEAN :
          run = [skip_existing |-> skip_existing, at |-> "start", filings |-> << >>,
                 position |-> 0, stages |-> EmptyDict, summaries |-> << >>,
                 extraction_paths |-> << >>, results |-> << >>]
    /\ stage_log = << >>

PipelineFrame ==
    UNCHANGED <<resolver_vars, store_vars, session_vars, extract_vars, call_vars,
                retriever_vars, worker_vars, agent_vars, tree>>

\* filings = discover_filings(company_filter); return [] when there is none.
Discover ==
    /\ run.at = "start"
    /\ LET filings == discover_filings(tree)
       IN  run' = [run EXCEPT !.filings = filings,
                              !.position = 1,
                              !.at = IF filings = << >> THEN "done" ELSE "parse"]
    /\ UNCHANGED <<files, stage_log>>
    /\ PipelineFrame

\* The summary dict of the filing the loop is at, with the stages given.
Summary(filing, stages) ==
    [document_id |-> filing.document_id, company |-> filing.company_name,
     year |-> filing.year, pdf_path |-> filing.pdf_path, stages |-> stages]

\* summaries.append(summary) and on to the next filing, or to stage 3.
NextFiling(r, stages) ==
    [r EXCEPT !.summaries = Append(@, Summary(r.filings[r.position], stages)),
              !.stages = EmptyDict,
              !.position = @ + 1,
              !.at = IF r.position = Len(r.filings) THEN "ingest" ELSE "parse"]

\* At stage (the log's name of it): the event the log takes.
Event(stage, status, output) ==
    [filing |-> run.position, stage |-> stage, status |-> status, output |-> output]

\* _run_parsing(filing) returns: the output exists and is skipped, or the
\* PDF is parsed and the document written.
ParsingReturns ==
    /\ run.at = "parse"
    /\ LET filing == run.filings[run.position]
           output_path == parsed_json_path(filing)
           skipped == run.skip_existing /\ output_path \in DOMAIN files
       IN  /\ files' = IF skipped THEN files
                       ELSE DictUpdate(files, output_path :> ParsedDocument(filing))
           /\ run' = [run EXCEPT
                         !.stages = "parsing" :> [status |-> "ok", output |-> output_path],
                         !.at = "extract"]
           /\ stage_log' = Append(stage_log,
                   Event("parsing", IF skipped THEN "skipped" ELSE "ok", output_path))
    /\ PipelineFrame

\* _run_parsing(filing) raises (PDFParser fails): the summary takes the
\* error and the loop continues with the next filing.
ParsingRaises ==
    /\ run.at = "parse"
    /\ LET output_path == parsed_json_path(run.filings[run.position])
       IN  /\ ~(run.skip_existing /\ output_path \in DOMAIN files)
           /\ stage_log' = Append(stage_log, Event("parsing", "error", output_path))
    /\ run' = NextFiling(run, "parsing" :> [status |-> "error"])
    /\ UNCHANGED files
    /\ PipelineFrame

\* _run_extraction(filing) returns: the output exists and is skipped, or
\* the parsed JSON is read, extracted and the result written; the path is
\* appended to extraction_paths.
ExtractionReturns ==
    /\ run.at = "extract"
    /\ LET filing == run.filings[run.position]
           output_path == extracted_json_path(filing)
           parsed_path == parsed_json_path(filing)
           skipped == run.skip_existing /\ output_path \in DOMAIN files
       IN  /\ skipped \/ parsed_path \in DOMAIN files
           /\ files' = IF skipped THEN files
                       ELSE DictUpdate(files, output_path :> files[parsed_path])
           /\ run' = [NextFiling(run, run.stages @@
                             ("extraction" :> [status |-> "ok", output |-> output_path]))
                        EXCEPT !.extraction_paths = Append(@, output_path)]
           /\ stage_log' = Append(stage_log,
                   Event("extraction", IF skipped THEN "skipped" ELSE "ok", output_path))
    /\ PipelineFrame

\* _run_extraction(filing) raises (the parsed JSON is missing, or the
\* extractor fails): the summary takes the error, the path is not appended
\* and the loop continues with the next filing.
ExtractionRaises ==
    /\ run.at = "extract"
    /\ LET output_path == extracted_json_path(run.filings[run.position])
       IN  /\ ~(run.skip_existing /\ output_path \in DOMAIN files)
           /\ stage_log' = Append(stage_log, Event("extraction", "error", output_path))
    /\ run' = NextFiling(run, run.stages @@ ("extraction" :> [status |-> "error"]))
    /\ UNCHANGED files
    /\ PipelineFrame

\* if extraction_paths: is false - run() returns the summaries.
NoIngestion ==
    /\ run.at = "ingest"
    /\ run.extraction_paths = << >>
    /\ run' = [run EXCEPT !.at = "done"]
    /\ UNCHANGED <<files, stage_log>>
    /\ PipelineFrame

\* _run_ingestion: gi.ingest(path) of the next path returns its summary.
IngestReturns ==
    /\ run.at = "ingest"
    /\ Len(run.results) < Len(run.extraction_paths)
    /\ LET path == run.extraction_paths[Len(run.results) + 1]
       IN  /\ run' = [run EXCEPT !.results =
                         Append(@, [document_id |-> files[path].document_id])]
           /\ stage_log' = Append(stage_log,
                   [filing |-> 0, stage |-> "ingestion", status |-> "ok", output |-> path])
    /\ UNCHANGED files
    /\ PipelineFrame

\* _run_ingestion raises (GraphIngestor(), an ingest() or create_indexes()
\* fails): every summary without an ingestion stage takes the error.
IngestionRaises ==
    /\ run.at = "ingest"
    /\ run.extraction_paths # << >>
    /\ run' = [run EXCEPT
                  !.summaries = [i \in 1..Len(run.summaries) |->
                      [run.summaries[i] EXCEPT
                          !.stages = @ @@ ("ingestion" :> [status |-> "error"])]],
                  !.at = "done"]
    /\ stage_log' = Append(stage_log,
            [filing |-> 0, stage |-> "ingestion", status |-> "error", output |-> << >>])
    /\ UNCHANGED files
    /\ PipelineFrame

\* _run_ingestion returns after create_indexes(): each result is attached
\* to the summaries with its document_id, and run() returns.
IngestionReturns ==
    /\ run.at = "ingest"
    /\ run.extraction_paths # << >>
    /\ Len(run.results) = Len(run.extraction_paths)
    /\ run' = [run EXCEPT
                  !.summaries = [i \in 1..Len(run.summaries) |->
                      LET s == run.summaries[i]
                      IN  IF \E k \in 1..Len(run.results) :
                                run.results[k].document_id = s.document_id
                          THEN [s EXCEPT !.stages =
                                  ("ingestion" :> [status |-> "ok",
                                                   document_id |-> s.document_id]) @@ @]
                          ELSE s],
                  !.at = "done"]
    /\ UNCHANGED <<files, stage_log>>
    /\ PipelineFrame

PipelineNext ==
    \/ Discover
    \/ ParsingReturns
    \/ ParsingRaises
    \/ ExtractionReturns
    \/ ExtractionRaises
    \/ NoIngestion
    \/ IngestReturns
    \/ IngestionRaises
    \/ IngestionReturns

SpecPipeline == PipelineInit /\ [][PipelineNext]_vars

(***************************************************************************)
(* Claims about the remapper (checked under Spec)                          *)
(***************************************************************************)

\* An endpoint as the alias map of the call sees it.
Through(aliases, id) == IF id \in DOMAIN aliases THEN aliases[id] ELSE id

\* C32: remapper pass-through - the list an ingest() hands to
\* write_relationships has one record per raw relationship of the file, in
\* the file's order, each endpoint replaced by its alias-map value when the
\* map has the id and unchanged otherwise, type and properties as in the
\* file, and a sources list of one element, the raw relationship's own
\* provenance.
C32_RemapperPassThrough ==
    last_outcome \in {"returned", "store_error"} =>
        /\ Len(LastRemapped) = Len(last_doc.relationships)
        /\ \A i \in 1..Len(last_doc.relationships) :
              LET raw == last_doc.relationships[i]
              IN  /\ LastRemapped[i].source_id = Through(alias_map, raw.source_id)
                  /\ LastRemapped[i].target_id = Through(alias_map, raw.target_id)
                  /\ LastRemapped[i].type = raw.type
                  /\ LastRemapped[i].properties = raw.properties
                  /\ LastRemapped[i].sources = <<raw.source>>

\* C32 witness: an ingest() has returned whose file held a relationship to
\* an id the alias map does not have, followed by one whose source id the
\* map sends to another id.
C32_Witness ==
    /\ last_outcome = "returned"
    /\ Len(last_doc.relationships) = 2
    /\ last_doc.relationships[1].target_id \notin DOMAIN alias_map
    /\ LastRemapped[1].target_id = "tcs"
    /\ last_doc.relationships[2].source_id = "infy"
    /\ "infy" \in DOMAIN alias_map
    /\ alias_map["infy"] = "infosys"
    /\ LastRemapped[2].source_id = "infosys"
    /\ LastRemapped[2].sources = <<Provenance(last_doc.document_id, 1)>>

(***************************************************************************)
(* Claims about the flattening of _clean_props (checked under SpecClean)   *)
(***************************************************************************)

\* isinstance says neither None nor dict nor list.
IsScalar(v) == v.kind \notin {"null", "dict", "list"}

\* C33 (as stated): flattening loses no scalar - every non-null scalar
\* top-level property is in the result under its key with its value, and
\* every non-null scalar child c of a nested mapping under key k is in the
\* result as the property k_c with its value.
C33_FlatteningLosesNoScalar ==
    returned # << >> =>
        \A i \in 1..Len(argument.props) :
            LET k == argument.props[i].k
                v == argument.props[i].v
                clean == returned[1]
            IN  /\ IsScalar(v) => k \in DOMAIN clean /\ clean[k] = v
                /\ v.kind = "dict" =>
                      \A c \in 1..Len(v.val) :
                          IsScalar(v.val[c].v) =>
                              /\ (k \o "_" \o v.val[c].k) \in DOMAIN clean
                              /\ clean[k \o "_" \o v.val[c].k] = v.val[c].v

(***************************************************************************)
(* Claims about the chunking of write_entities (checked under Spec)        *)
(***************************************************************************)

RECURSIVE Concatenation(_)
Concatenation(batches) ==
    IF batches = << >> THEN << >> ELSE Head(batches) \o Concatenation(Tail(batches))

\* C34: chunk size is unobservable - for the entity list an ingest() that
\* returned gave to write_entities and every chunk size from 1 up,
\* _make_batches gives consecutive chunks (each of the chunk size, the last
\* one possibly shorter, none empty) whose concatenation is the list, and
\* the upserts are the same, in the same order, as the ones write_entities
\* issued: one per entity in list order, leaving the nodes the store has
\* and the count the summary reports.
C34_ChunkSizeUnobservable ==
    last_outcome = "returned" =>
        \A size \in 1..MaxChunk :
            LET batches == _make_batches(registry, size)
                issued == EntityStatements(registry, size)
            IN  /\ Concatenation(batches) = registry
                /\ \A b \in 1..Len(batches) :
                      /\ Len(batches[b]) >= 1
                      /\ Len(batches[b]) <= size
                      /\ b < Len(batches) => Len(batches[b]) = size
                /\ issued = [i \in 1..Len(registry) |-> [kind |-> "entity", arg |-> registry[i]]]
                /\ issued = write_entities(registry)
                /\ RunEvery(store_before, issued).nodes = nodes
                /\ Len(issued) = summaries[Len(summaries)].entities_written

\* C34 witness: an ingest() has returned that wrote three entities, which
\* chunks of two split into a full chunk and a shorter last one.
C34_Witness ==
    /\ last_outcome = "returned"
    /\ Len(registry) = 3
    /\ Len(nodes) = 3
    /\ Len(_make_batches(registry, 2)) = 2
    /\ Len(_make_batches(registry, 2)[2]) = 1
    /\ summaries[Len(summaries)].entities_written = 3

(***************************************************************************)
(* Claims about document workers sharing the resolver (checked under       *)
(* SpecWorkers)                                                            *)
(***************************************************************************)

\* No two canonical entities of one type have display names that score at
\* or above the threshold.
NamesApart ==
    \A i \in 1..Len(registry) : \A j \in 1..Len(registry) :
        (i # j /\ registry[i].type = registry[j].type)
            => Score(DisplayName(registry[i]), DisplayName(registry[j])) < FUZZY_THRESHOLD

\* The same of the names the entities were registered with, which is what
\* _find_canonical compares.
IndexedNamesApart ==
    \A t \in DOMAIN name_index :
        \A i \in 1..Len(name_index[t]) : \A j \in 1..Len(name_index[t]) :
            i # j => Score(name_index[t][i].name, name_index[t][j].name) < FUZZY_THRESHOLD

\* Under the lock at most one worker is inside resolve(), the lock's holder.
LockExcludes ==
    exclusive =>
        \A w \in 1..MaxWorkers :
            workers[w].at \in {"find", "apply", "return"} => lock = w

\* With every call under the lock, the names the entities were registered
\* with stay apart in every interleaving of the workers.
SerializedKeepsIndexedNamesApart == exclusive => IndexedNamesApart

\* Without the lock two workers have both searched before either
\* registered, and both registered: two companies whose registration names
\* score at or above the threshold.
RaceRegistersNearNames ==
    /\ ~exclusive
    /\ ~IndexedNamesApart
    /\ \A w \in 1..MaxWorkers :
          /\ workers[w].at = "returned"
          /\ Len(workers[w].entities) = 1
          /\ workers[w].canonical_id = None

\* C35 (as stated): the resolver needs serialization - with each resolve()
\* call made under one exclusive lock, every interleaving of the document
\* workers keeps the registry free of two canonical entities of one type
\* whose names score at or above the threshold.
C35_SerializedKeepsNamesApart == exclusive => NamesApart

(***************************************************************************)
(* Claims about aliases across the documents of a session (checked under   *)
(* Spec)                                                                   *)
(***************************************************************************)

\* The canonical ids some resolve() call of the session returned for a raw id.
AliasedTo(raw_id) == {p[2] : p \in {q \in established : q[1] = raw_id}}

\* C36 (as stated): aliases carry across documents for relationships - after
\* an ingest() that returned, a relationship of its file whose endpoint is a
\* raw id that is not in the file's entity list and that an earlier ingest()
\* of the session aliased to the canonical id c was handed to the writer
\* with endpoint c, and is in the store with endpoint c when its other
\* endpoint has a node.
C36_AliasesCarryAcrossDocuments ==
    last_outcome = "returned" =>
        \A k \in 1..Len(last_doc.relationships) :
            LET raw == last_doc.relationships[k]
                written == LastRemapped[k]
            IN  /\ \A c \in AliasedTo(raw.source_id) :
                      raw.source_id \notin DOMAIN alias_map =>
                          /\ written.source_id = c
                          /\ written.target_id \in NodeIds(nodes) =>
                                \E i \in 1..Len(edges) : SameEdge(edges[i], written)
                /\ \A c \in AliasedTo(raw.target_id) :
                      raw.target_id \notin DOMAIN alias_map =>
                          /\ written.target_id = c
                          /\ written.source_id \in NodeIds(nodes) =>
                                \E i \in 1..Len(edges) : SameEdge(edges[i], written)

(***************************************************************************)
(* Claims about Pipeline.run (checked under SpecPipeline)                  *)
(***************************************************************************)

\* The stage of a summary ended with status "ok".
StageOk(summary, stage) ==
    stage \in DOMAIN summary.stages /\ summary.stages[stage].status = "ok"

\* The log has, before position n, the stage call of the filing ending in
\* one of the statuses.
CalledBefore(n, filing, stage, statuses) ==
    \E m \in 1..(n - 1) :
        /\ stage_log[m].filing = filing
        /\ stage_log[m].stage = stage
        /\ stage_log[m].status \in statuses

\* The stage gating of C37 as run()'s log and summaries show it.
StageGating ==
    /\ \A n \in 1..Len(stage_log) :
          stage_log[n].stage = "extraction" =>
              CalledBefore(n, stage_log[n].filing, "parsing", {"ok", "skipped"})
    /\ \A i \in 1..Len(run.summaries) :
          LET summary == run.summaries[i]
          IN  /\ "extraction" \in DOMAIN summary.stages => StageOk(summary, "parsing")
              /\ StageOk(summary, "ingestion") => StageOk(summary, "extraction")
    /\ run.at \in {"ingest", "done"} =>
          /\ Len(run.summaries) = Len(run.filings)
          /\ \A i \in 1..Len(run.summaries) :
                /\ "parsing" \in DOMAIN run.summaries[i].stages
                /\ StageOk(run.summaries[i], "parsing")
                      => "extraction" \in DOMAIN run.summaries[i].stages
    /\ \A n \in 1..Len(stage_log) :
          stage_log[n].stage = "ingestion" =>
              \A i \in 1..Len(run.filings) :
                  /\ CalledBefore(n, i, "parsing", {"ok", "skipped", "error"})
                  /\ CalledBefore(n, i, "parsing", {"ok", "skipped"})
                        => CalledBefore(n, i, "extraction", {"ok", "skipped", "error"})

\* No two discovered filings have the same document_id or output path.
DistinctOutputs ==
    \A i \in 1..Len(run.filings) : \A j \in 1..Len(run.filings) :
        i # j =>
            /\ run.filings[i].document_id # run.filings[j].document_id
            /\ parsed_json_path(run.filings[i]) # parsed_json_path(run.filings[j])
            /\ extracted_json_path(run.filings[i]) # extracted_json_path(run.filings[j])

\* The gating holds of every run whose filings have outputs of their own.
StageGatingOfDistinctOutputs == DistinctOutputs => StageGating

C40_FilingsDoNotShareOutputs ==
    run.at # "start" =>
        /\ DistinctOutputs
        /\ \A n \in 1..Len(stage_log) :
              stage_log[n].status = "skipped" =>
                  files[stage_log[n].output].pdf = run.filings[stage_log[n].filing].pdf_path
        /\ \A n \in 1..Len(stage_log) : \A m \in 1..Len(stage_log) :
              (/\ stage_log[n].status = "ok"
               /\ stage_log[m].status = "ok"
               /\ stage_log[n].stage \in {"parsing", "extraction"}
               /\ stage_log[m].stage = stage_log[n].stage
               /\ stage_log[n].output = stage_log[m].output)
                  => stage_log[n].filing = stage_log[m].filing
        /\ \A k \in 1..Len(run.extraction_paths) : \A l \in 1..Len(run.extraction_paths) :
              run.extraction_paths[k] = run.extraction_paths[l] => k = l

(***************************************************************************)
(* Claims about the round loop of query() (checked under SpecAgent)        *)
(***************************************************************************)

\* What the loop of query() does when no call in it raises: at most
\* MAX_TOOL_ROUNDS rounds; the loop goes on only after a round that had
\* tool calls and left no non-empty answer; submit_answer is the last call
\* a round dispatches; the answer is forced exactly when the loop left no
\* final result, which takes all the rounds; a returned result has every
\* field.
RoundLoopAsClaimed ==
    /\ agent.round_num <= MAX_TOOL_ROUNDS
    /\ agent.at = "round" => ~agent.answered /\ ~HasAnswer(agent.final_result)
    /\ (agent.at = "round" /\ agent.round_num > 0) => agent.dispatched # << >>
    /\ \A i \in 1..Len(agent.dispatched) :
          agent.dispatched[i] = "submit_answer" => i = Len(agent.dispatched)
    /\ (agent.at = "finish" /\ ~agent.answered) => agent.round_num = MAX_TOOL_ROUNDS
    /\ agent.at = "returned" =>
          /\ agent.result # Null
          /\ agent.forced => agent.round_num = MAX_TOOL_ROUNDS
          /\ agent.forced => agent.result.confidence = "LOW"
          /\ agent.forced => agent.result.has_sufficient_data = (context # EmptyContext)

\* C38 (as stated): bounded agent loop - query() performs at most
\* MAX_TOOL_ROUNDS rounds and always returns a result (no call of it ends
\* in an exception); it stops at the first round that has no tool calls or
\* that submits a non-empty answer, dispatches no further tool call of a
\* round after submit_answer, and forces an answer from the accumulated
\* context when no final result exists after the last round.
C38_BoundedAgentLoop == RoundLoopAsClaimed /\ agent.at # "raised"

(***************************************************************************)
(* The loop of _build_windows, one iteration at a time                     *)
(***************************************************************************)

\* How far below zero the window size and the step size of a call go: the
\* constructor stores window_size and step_size as given, so zero and
\* negative sizes reach _build_windows.
MaxBelowZero == 1

\* A call _build_windows(total) of an extractor constructed with any window
\* size and any step size, before the first test of the while loop.
WindowLoopInit ==
    /\ ResolverIdle
    /\ IngestorAbsent
    /\ ExtractorIdle
    /\ RetrieverIdle
    /\ WorkersIdle
    /\ PipelineIdle
    /\ AgentIdle
    /\ argument \in {[total |-> n, window_size |-> w, step_size |-> st] :
                        n \in 0..MaxPages, w \in (-MaxBelowZero)..MaxWindow,
                        st \in (-MaxBelowZero)..(MaxWindow - 1)}
    /\ returned = [at |-> "while", start |-> 0, windows |-> << >>]

WindowLoopFrame ==
    UNCHANGED <<agent_vars, pipeline_vars, worker_vars, retriever_vars, argument, resolver_vars, store_vars,
                session_vars, extract_vars>>

\* One pass through the body of the while loop: the window is appended, and
\* the loop is left when the window ends at total, else start moves on by
\* step_size.  The loop is followed until it has appended one window more
\* than the document has pages.
AppendWindow ==
    /\ returned.at = "while"
    /\ returned.start < argument.total
    /\ Len(returned.windows) <= argument.total
    /\ LET end == Min(returned.start + argument.window_size, argument.total)
           windows == Append(returned.windows, <<returned.start, end>>)
       IN  returned' = IF end = argument.total
                       THEN [returned EXCEPT !.windows = windows, !.at = "returned"]
                       ELSE [returned EXCEPT !.windows = windows,
                                             !.start = @ + argument.step_size]
    /\ WindowLoopFrame

\* The test of the while loop fails: the windows are returned.
ReturnWindows ==
    /\ returned.at = "while"
    /\ ~(returned.start < argument.total)
    /\ returned' = [returned EXCEPT !.at = "returned"]
    /\ WindowLoopFrame

WindowLoopNext == AppendWindow \/ ReturnWindows

SpecWindowLoop == WindowLoopInit /\ [][WindowLoopNext]_vars

(***************************************************************************)
(* Claims about the termination of _build_windows (checked under           *)
(* SpecWindowLoop)                                                         *)
(***************************************************************************)

\* With a step of at least one the loop appends at most one window per page.
PositiveStepBoundsWindows ==
    argument.step_size >= 1 => Len(returned.windows) <= argument.total

\* With a step of at least one the loop returns what the recursive definition
\* of _build_windows gives.
LoopReturnsBuildWindows ==
    (argument.step_size >= 1 /\ returned.at = "returned")
        => returned.windows = _build_windows(argument.total, argument.window_size,
                                             argument.step_size)

\* C39 (as stated): window construction terminates - for every page count
\* N >= 0 and every window size and step size the constructor accepts, the
\* loop of _build_windows appends at most N windows before it returns, so
\* process_document makes at most N oracle calls.
C39_WindowLoopBounded == Len(returned.windows) <= argument.total

====
